---- MODULE Spec2Model ----
(***************************************************************************)
(* The event-to-thread dispatch engine of MicroLua (mlua.event), as found  *)
(* in src/lib/pico.time.c lines 187-528: the event slot table (claimed     *)
(* masks per core, global pending bitmap), the watcher registry kept in    *)
(* each core's Lua registry, and mod_dispatch.                             *)
(*                                                                         *)
(* Each core runs its own Lua interpreter, so the watcher table stored at  *)
(* LUA_REGISTRYINDEX[&event_state] exists once per core: registry[c].      *)
(* A critical section between mlua_event_lock and mlua_event_unlock is one *)
(* atomic step; code outside the lock is a separate step.                  *)
(***************************************************************************)
EXTENDS Integers, FiniteSets, Sequences, TLC

\* ---- sizes -------------------------------------------------------------
\* The RP2040 has two cores.
NUM_CORES == 2
\* Bits per bitmap word: uint32_t in the source, scaled down to 2.
BlockBits == 2
\* Number of bitmap words: (128 + 31) / 32 = 4 in the source, scaled down.
EVENTS_SIZE == 2
NUM_EVENTS == EVENTS_SIZE * BlockBits
\* Lua threads of the model; thread t runs on core t % NUM_CORES.
NumThreads == 3
\* The clock runs from 0 to MaxTime.
MaxTime == 1
\* MLuaEvent variables in use in the specifications that have watchers.
NumClaims == 2
\* A thread in mlua_event_wait is followed through MaxCycles resumptions.
MaxCycles == 2

Cores == 0 .. (NUM_CORES - 1)
Events == 0 .. (NUM_EVENTS - 1)
Blocks == 0 .. (EVENTS_SIZE - 1)
Threads == 0 .. (NumThreads - 1)
\* One MLuaEvent variable more than there are slots, so that a claim can
\* find the table exhausted.
Handles == 1 .. (NUM_EVENTS + 1)
\* Any value >= NUM_EVENTS marks an MLuaEvent that holds no slot.
MLUA_EVENT_UNSET == NUM_EVENTS

CoreOf(t) == t % NUM_CORES
ThreadsOf(c) == {t \in Threads : CoreOf(t) = c}
BlockOf(b) == {e \in Events : e \div BlockBits = b}
Min(S) == CHOOSE x \in S : \A y \in S : x <= y

\* The two deadline sentinels of pico/time.h, and the finite deadlines.
nil_time == 0
at_the_end_of_time == MaxTime + 1
Deadlines == 0 .. (MaxTime + 1)

NoEvent == NUM_EVENTS
NilEntry == [kind |-> "nil", ws |-> {}]

\* ---- execution contexts ------------------------------------------------
\* The Lua code of a core runs in one of its threads (coroutines) or in
\* the core's main context, which is no coroutine: MainCtx(c).
MainCtx(c) == NumThreads + c
Contexts == 0 .. (NumThreads + NUM_CORES - 1)
CtxCore(x) == IF x \in Threads THEN CoreOf(x) ELSE x - NumThreads
\* lua_isyieldable: a coroutine can yield, the main context cannot.
lua_isyieldable(x) == x \in Threads
\* What a try_get function returns: negative for "not ready", or the
\* number of results.
TryResults == {-1, 0, 1}
\* The value a context has yielded to its host, if any: an integer, the
\* deadline, or a boolean (at is 1 for true and 0 for false).
NoValue == [kind |-> "none", at |-> 0]
\* A context that is in no call, and has made none yet. idx is the stack
\* index of the deadline that a wait or a sleep hands to mlua_event_suspend
\* (0: there is none), yv the value the context yielded when it suspended,
\* exits the number of times the exit handler of the thread has run.
IdleThread ==
    [st |-> "out", ev |-> NoEvent, dl |-> at_the_end_of_time, ret |-> "none",
     val |-> -1, tries |-> 0, susp |-> 0, wakes |-> 0, idx |-> 0,
     yv |-> NoValue, exits |-> 0]

\* ---- the agents that take the lock ---------------------------------------
\* On every core, the main code and an interrupt handler.
Agents == 0 .. (2 * NUM_CORES - 1)
AgentCore(a) == a % NUM_CORES
IsHandler(a) == a >= NUM_CORES
NoAgent == 2 * NUM_CORES
IdleOp ==
    [op |-> "none", arg |-> 0, ph |-> "idle", rp |-> {},
     rm |-> [c \in Cores |-> {}]]

VARIABLES
    pending,    \* event_state.pending: the set of slots whose bit is set
    mask,       \* event_state.mask[core]: the slots claimed by each core
    handle,     \* the MLuaEvent variables of the producers
    registry,   \* per core: the watcher table, slot -> nil | thread | table
    pc,         \* per core: what the core's main code is executing
    uev,        \* per core: local e of a mlua_event_unclaim in progress
    claimRet,   \* the value returned by the last mlua_event_claim
    irq,        \* per core: an mlua_event_set that has not issued __sev yet
    evreg,      \* per core: the event register tested by WFE
    now,        \* the clock
    deadline,   \* per core: mod_dispatch's deadline
    blk,        \* per core: mod_dispatch's block
    active,     \* per core: mod_dispatch's active
    cur,        \* per core: the slot whose watchers are being resumed
    iter,       \* per core: the watchers of cur not resumed yet
    wake,       \* per core: mod_dispatch's wake
    rlog,       \* per core: the resume calls of the current pass, in order,
                \* each <<slot, thread>>
    progress,   \* per core: a resume call of the current pass returned true
    entryPending, \* per core: the slots with a watcher on the core that
                \* were pending when the current pass of mod_dispatch began
    thr,        \* per execution context: where it stands in mlua_event_wait
                \* or mlua_event_suspend, and what the last call returned
    lock,       \* the holder of mlua_event_spinlock
    lop         \* per agent: the locked update it is executing, with the
                \* words it has read

dispVars == <<deadline, blk, active, cur, iter, wake, rlog, progress,
              entryPending>>
auxVars == <<thr, lock, lop>>
vars == <<pending, mask, handle, registry, pc, uev, claimRet, irq, evreg,
          now, deadline, blk, active, cur, iter, wake, rlog, progress,
          entryPending, thr, lock, lop>>

TypeOK ==
    /\ pending \subseteq Events
    /\ mask \in [Cores -> SUBSET Events]
    /\ handle \in [Handles -> 0 .. NUM_EVENTS]
    /\ \A c \in Cores : \A e \in Events :
         /\ registry[c][e].kind \in {"nil", "thread", "table"}
         /\ registry[c][e].ws \subseteq ThreadsOf(c)
    /\ pc \in [Cores -> {"run", "unclaim", "snap", "resume", "check", "wfe"}]
    /\ uev \in [Cores -> 0 .. NUM_EVENTS]
    /\ irq \in [Cores -> {"none", "sev"}]
    /\ evreg \in [Cores -> BOOLEAN]
    /\ now \in 0 .. MaxTime
    /\ deadline \in [Cores -> Deadlines]
    /\ \A x \in Contexts :
         /\ thr[x].st \in {"out", "suspended", "ready", "dead", "closing"}
         /\ thr[x].exits \in 0 .. 2
         /\ thr[x].ev \in 0 .. NUM_EVENTS
         /\ thr[x].dl \in Deadlines
         /\ thr[x].val \in TryResults
         /\ thr[x].tries \in 0 .. (MaxCycles + 1)
         /\ thr[x].idx \in {0, 1}
         /\ thr[x].yv.kind \in {"none", "integer", "boolean"}
         /\ thr[x].yv.at \in Deadlines
    /\ lock \in Agents \cup {NoAgent}
    /\ \A a \in Agents :
         /\ lop[a].op \in {"none", "claim", "unclaim", "set", "clear", "snap"}
         /\ lop[a].ph \in {"idle", "locked", "read", "written", "after"}

Init ==
    /\ pending = {}
    /\ mask = [c \in Cores |-> {}]
    /\ handle = [h \in Handles |-> MLUA_EVENT_UNSET]
    /\ registry = [c \in Cores |-> [e \in Events |-> NilEntry]]
    /\ pc = [c \in Cores |-> "run"]
    /\ uev = [c \in Cores |-> NoEvent]
    /\ claimRet = "none"
    /\ irq = [c \in Cores |-> "none"]
    /\ evreg = [c \in Cores |-> FALSE]
    /\ now = 0
    /\ deadline = [c \in Cores |-> nil_time]
    /\ blk = [c \in Cores |-> 0]
    /\ active = [c \in Cores |-> {}]
    /\ cur = [c \in Cores |-> NoEvent]
    /\ iter = [c \in Cores |-> {}]
    /\ wake = [c \in Cores |-> FALSE]
    /\ rlog = [c \in Cores |-> << >>]
    /\ progress = [c \in Cores |-> FALSE]
    /\ entryPending = [c \in Cores |-> {}]
    /\ thr = [x \in Contexts |-> IdleThread]
    /\ lock = NoAgent
    /\ lop = [a \in Agents |-> IdleOp]

\* A plausible slip: the code of a thread also runs inside a call of
\* mod_dispatch.
Running_InDispatch(c) == irq[c] = "none"

\* The main code of core c is between two operations, and no interrupt
\* handler is running on it.
Running(c) == pc[c] = "run" /\ irq[c] = "none"

\* ---- mlua_event_claim ---------------------------------------------------
\* A plausible slip: the scan looks at the calling core's mask only.
ClaimedInBlock_OwnCoreOnly(c, b) == mask[c] \cap BlockOf(b)

\* Lines 222-225: the union of all cores' masks for one block. (The inner
\* loop variable shadows the calling core c, which the union ignores.)
ClaimedInBlock(c, b) == UNION {mask[core] \cap BlockOf(b) : core \in Cores}

\* A plausible slip: the block offset is left out of the returned id.
SlotId_NoBlock(b, idx) == idx

\* Line 229: block * 32 + idx.
SlotId(b, idx) == b * BlockBits + idx

\* Line 230: the bit 1u << idx of word block.
BitOf(b, idx) == b * BlockBits + idx

\* A plausible slip: the scan returns the highest clear bit of the word.
FreeIdx_Highest(c, b) ==
    LET free == {i \in 0 .. (BlockBits - 1) :
                   BitOf(b, i) \notin ClaimedInBlock(c, b)}
    IN  IF free = {} THEN -1 ELSE CHOOSE i \in free : \A j \in free : j <= i

\* Line 226: __builtin_ffs(~mask) - 1, the lowest clear bit of the word, or
\* -1 when the word is full.
FreeIdx(c, b) ==
    LET free == {i \in 0 .. (BlockBits - 1) :
                   BitOf(b, i) \notin ClaimedInBlock(c, b)}
    IN  IF free = {} THEN -1 ELSE Min(free)

\* A plausible slip: the loop over the blocks stops after the first one.
FreeBlock_FirstOnly(c) == IF FreeIdx(c, 0) >= 0 THEN 0 ELSE EVENTS_SIZE

\* Lines 221-234: the first block that has a free bit, or EVENTS_SIZE.
FreeBlock(c) ==
    LET bs == {b \in Blocks : FreeIdx(c, b) >= 0}
    IN  IF bs = {} THEN EVENTS_SIZE ELSE Min(bs)

\* A plausible slip: the MLuaEvent is not looked at before the scan.
AlreadyClaimed_Never(e) == FALSE

\* Lines 215-216: e = *ev; e < NUM_EVENTS.
AlreadyClaimed(e) == e < NUM_EVENTS

mlua_event_claim(c, h) ==
    /\ Running(c)
    /\ IF AlreadyClaimed(handle[h])
       THEN /\ claimRet' = "event already claimed"
            /\ UNCHANGED <<mask, handle>>
       ELSE IF FreeBlock(c) < EVENTS_SIZE
       THEN LET b == FreeBlock(c)
                idx == FreeIdx(c, b)
            IN  /\ handle' = [handle EXCEPT ![h] = SlotId(b, idx)]
                /\ mask' = [mask EXCEPT ![c] = @ \cup {BitOf(b, idx)}]
                /\ claimRet' = "NULL"
       ELSE /\ claimRet' = "no events available"
            /\ UNCHANGED <<mask, handle>>
    /\ UNCHANGED <<pending, registry, pc, uev, irq, evreg, now>>
    /\ UNCHANGED dispVars
    /\ UNCHANGED auxVars

\* ---- mlua_event_unclaim -------------------------------------------------
\* A plausible slip: the registry entry is left in place.
PurgedEntry_Kept(c, e) == registry[c][e]

\* Lines 255-259: registry[e] = nil.
PurgedEntry(c, e) == NilEntry

\* A plausible slip: the bit is looked up in the masks of all cores.
OwnsSlot_AnyCore(c, e) == \E core \in Cores : e \in mask[core]

\* Lines 246-248: the bit of e is set in the calling core's mask.
OwnsSlot(c, e) == e \in mask[c]

\* Lines 240-254, the locked part. The purge of the watcher table follows
\* the unlock and is a step of its own.
\* A plausible slip: the MLuaEvent keeps the id of the released slot.
HandleAfterUnclaim_Kept(e) == e

\* Line 252: *ev = MLUA_EVENT_UNSET.
HandleAfterUnclaim(e) == MLUA_EVENT_UNSET

mlua_event_unclaim(c, h) ==
    /\ Running(c)
    /\ LET e == handle[h] IN
       IF e >= NUM_EVENTS \/ ~OwnsSlot(c, e)
       THEN UNCHANGED <<mask, handle, pc, uev>>
       ELSE /\ mask' = [mask EXCEPT ![c] = @ \ {e}]
            /\ handle' = [handle EXCEPT ![h] = HandleAfterUnclaim(e)]
            /\ pc' = [pc EXCEPT ![c] = "unclaim"]
            /\ uev' = [uev EXCEPT ![c] = e]
    /\ UNCHANGED <<pending, registry, claimRet, irq, evreg, now>>
    /\ UNCHANGED dispVars
    /\ UNCHANGED auxVars

\* Lines 255-259.
mlua_event_unclaim_purge(c) ==
    /\ pc[c] = "unclaim" /\ irq[c] = "none"
    /\ registry' = [registry EXCEPT ![c][uev[c]] = PurgedEntry(c, uev[c])]
    /\ pc' = [pc EXCEPT ![c] = "run"]
    /\ uev' = [uev EXCEPT ![c] = NoEvent]
    /\ UNCHANGED <<pending, mask, handle, claimRet, irq, evreg, now>>
    /\ UNCHANGED dispVars
    /\ UNCHANGED auxVars

\* ---- mlua_event_set, mlua_event_clear ----------------------------------
\* Line 311: pending[ev / 32] |= 1u << (ev % 32).
PendingAfterSet(ev) == pending \cup {ev}

\* Lines 308-312. The caller passes the value of its MLuaEvent. The call
\* may come from an interrupt handler, which preempts the main code of its
\* core wherever that is; __sev() follows the unlock as a step of its own.
mlua_event_set(c, ev) ==
    /\ irq[c] = "none"
    /\ IF ev >= NUM_EVENTS
       THEN UNCHANGED <<pending, irq>>
       ELSE /\ pending' = PendingAfterSet(ev)
            /\ irq' = [irq EXCEPT ![c] = "sev"]
    /\ UNCHANGED <<mask, handle, registry, pc, uev, claimRet, evreg, now>>
    /\ UNCHANGED dispVars
    /\ UNCHANGED auxVars

\* A plausible slip: the bit is set without signalling anyone.
SevSignal_None(c) == evreg

\* The event registers after __sev() on core c: the signal reaches every
\* core, the issuing one included.
SevSignal(c) == [core \in Cores |-> TRUE]

\* Line 313: __sev().
mlua_event_set_sev(c) ==
    /\ irq[c] = "sev"
    /\ evreg' = SevSignal(c)
    /\ irq' = [irq EXCEPT ![c] = "none"]
    /\ UNCHANGED <<pending, mask, handle, registry, pc, uev, claimRet, now>>
    /\ UNCHANGED dispVars
    /\ UNCHANGED auxVars

\* A plausible slip: the whole word is cleared.
PendingAfterClear_WholeWord(ev) == pending \ BlockOf(ev \div BlockBits)

\* Line 319: pending[ev / 32] &= ~(1u << (ev % 32)).
PendingAfterClear(ev) == pending \ {ev}

\* Lines 316-321.
mlua_event_clear(c, ev) ==
    /\ Running(c)
    /\ IF ev >= NUM_EVENTS
       THEN UNCHANGED pending
       ELSE pending' = PendingAfterClear(ev)
    /\ UNCHANGED <<mask, handle, registry, pc, uev, claimRet, irq, evreg, now>>
    /\ UNCHANGED dispVars
    /\ UNCHANGED auxVars

\* ---- mlua_event_watch, mlua_event_unwatch -------------------------------
\* A plausible slip: a second watcher replaces the first one.
WatchedEntry_Replace(entry, t) == [kind |-> "thread", ws |-> {t}]

\* Lines 333-364: the entry of a slot after thread t is registered.
WatchedEntry(entry, t) ==
    CASE entry.kind = "nil" -> [kind |-> "thread", ws |-> {t}]
      [] entry.kind = "thread" ->
            IF entry.ws = {t} THEN entry
            ELSE [kind |-> "table", ws |-> entry.ws \cup {t}]
      [] entry.kind = "table" -> [kind |-> "table", ws |-> entry.ws \cup {t}]

\* A plausible slip: the whole entry is dropped, whoever watches.
UnwatchedEntry_DropAll(entry, t) == NilEntry

\* A plausible slip: the thread stays registered.
UnwatchedEntry_Kept(entry, t) == entry

\* Lines 370-391: the entry of a slot after thread t is unregistered. A
\* table stays a table, also when it becomes empty.
UnwatchedEntry(entry, t) ==
    CASE entry.kind = "nil" -> entry
      [] entry.kind = "thread" -> IF entry.ws = {t} THEN NilEntry ELSE entry
      [] entry.kind = "table" -> [kind |-> "table", ws |-> entry.ws \ {t}]

\* A plausible slip: one registry table is shared by the cores.
RegistryOf_Shared(x) == 0

\* Lines 332 and 369: lua_rawgetp(ls, LUA_REGISTRYINDEX, &event_state), the
\* table kept in the registry of the Lua state that context x runs in; each
\* core runs its own Lua state.
RegistryOf(x) == CtxCore(x)

\* A plausible slip: the context is not asked whether it can yield.
WatchError_AnyContext(x, ev) ==
    IF ev >= NUM_EVENTS THEN "watching disabled event" ELSE "none"

\* Lines 324-331: the error mlua_event_watch raises in context x for the
\* event value ev, or "none".
WatchError(x, ev) ==
    IF ev >= NUM_EVENTS THEN "watching disabled event"
    ELSE IF ~lua_isyieldable(x) THEN "watching event in unyieldable thread"
    ELSE "none"

\* Lines 323-365, called in context x: the error, or the registration of
\* the calling thread in the registry of its core.
mlua_event_watch(x, ev) ==
    /\ Running(CtxCore(x))
    /\ IF WatchError(x, ev) # "none"
       THEN UNCHANGED registry
       ELSE registry' = [registry EXCEPT ![RegistryOf(x)][ev] = WatchedEntry(@, x)]
    /\ thr' = [thr EXCEPT ![x].ret = WatchError(x, ev)]
    /\ UNCHANGED <<pending, mask, handle, pc, uev, claimRet, irq, evreg, now,
                   lock, lop>>
    /\ UNCHANGED dispVars

\* Lines 367-392.
mlua_event_unwatch(t, ev) ==
    /\ Running(CoreOf(t))
    /\ IF ev >= NUM_EVENTS
       THEN UNCHANGED registry
       ELSE registry' = [registry EXCEPT ![RegistryOf(t)][ev] = UnwatchedEntry(@, t)]
    /\ UNCHANGED <<pending, mask, handle, pc, uev, claimRet, irq, evreg, now>>
    /\ UNCHANGED dispVars
    /\ UNCHANGED auxVars

\* ---- mod_dispatch -------------------------------------------------------
is_nil_time(t) == t = nil_time
is_at_the_end_of_time(t) == t = at_the_end_of_time
time_reached(t) == now >= t

\* The threads that watch slot e on core c.
Watchers(c, e) == registry[c][e].ws
\* The slots with a watcher on core c whose pending bit is set.
WatchedPending(c) == {e \in pending : Watchers(c, e) # {}}

\* Lines 440-447: the call, up to the first pass.
mod_dispatch(c, d) ==
    /\ Running(c)
    /\ pc' = [pc EXCEPT ![c] = "snap"]
    /\ deadline' = [deadline EXCEPT ![c] = d]
    /\ blk' = [blk EXCEPT ![c] = 0]
    /\ wake' = [wake EXCEPT ![c] = FALSE]
    /\ rlog' = [rlog EXCEPT ![c] = << >>]
    /\ progress' = [progress EXCEPT ![c] = FALSE]
    /\ entryPending' = [entryPending EXCEPT ![c] = WatchedPending(c)]
    /\ UNCHANGED <<pending, mask, handle, registry, uev, claimRet, irq, evreg,
                   now, active, cur, iter>>
    /\ UNCHANGED auxVars

\* A plausible slip: the snapshot is not restricted to the core's own mask.
DrainMask_AnyCore(c, b) == BlockOf(b)

\* Line 452: masks[block], the bits of the block claimed by the calling core.
DrainMask(c, b) == mask[c] \cap BlockOf(b)

\* A plausible slip: the loop over a watcher table stops after one thread.
ToResume_FirstOnly(entry) ==
    IF entry.ws = {} THEN {} ELSE {Min(entry.ws)}

\* Lines 461-484: the threads resumed for a registry entry: the single
\* watcher, or every key of the table; none for nil.
ToResume(entry) == entry.ws

\* A plausible slip: the scan takes the highest active bit first.
ScannedBefore_Descending(e1, e2) == e1 > e2

\* A plausible slip: the scanned bit stays in the snapshot, so the scan finds
\* the same slot again.
ScannedBefore_OrSame(e1, e2) == e1 <= e2

\* Lines 457-460: __builtin_ffs(active) takes the lowest active bit first.
ScannedBefore(e1, e2) == e1 < e2

\* Lines 456-461 and 481-485: the inner loop takes the active bits in
\* ascending order (__builtin_ffs) and looks up the registry entry of each;
\* a bit whose entry holds no thread is passed over. The result is where the
\* core stands next: at the first resume call for a bit of act, or, with no
\* such bit, at the snapshot of the next block or at the end of the pass.
AfterScan(c, act, b) ==
    LET ws == {e \in act : ToResume(registry[c][e]) # {}}
        first == CHOOSE e \in ws : \A f \in ws \ {e} : ScannedBefore(e, f)
    IN  IF ws # {}
        THEN [pc |-> "resume", blk |-> b, cur |-> first,
              active |-> {e \in act : ScannedBefore(first, e)},
              iter |-> ToResume(registry[c][first])]
        ELSE IF b + 1 < EVENTS_SIZE
        THEN [pc |-> "snap", blk |-> b + 1, cur |-> NoEvent, active |-> {},
              iter |-> {}]
        ELSE [pc |-> "check", blk |-> b, cur |-> NoEvent, active |-> {},
              iter |-> {}]

\* A plausible slip: the whole word is cleared, not only the core's bits.
PendingAfterSnap_WholeBlock(c, b) == pending \ BlockOf(b)

\* A plausible slip: the bit of a slot that nobody watches stays pending.
PendingAfterSnap_KeepUnwatched(c, b) ==
    pending \ {e \in DrainMask(c, b) : Watchers(c, e) # {}}

\* Line 453: *pending = active & ~mask, written in the locked section that
\* has read the word at line 451.
PendingAfterSnap(c, b) == pending \ DrainMask(c, b)

\* Lines 449-461: under the lock, take the pending bits of the block that
\* the calling core owns and clear them in the global bitmap; then scan them.
dispatch_snap(c) ==
    /\ pc[c] = "snap" /\ irq[c] = "none"
    /\ LET m == DrainMask(c, blk[c])
           act == (pending \cap BlockOf(blk[c])) \cap m
           nxt == AfterScan(c, act, blk[c])
       IN  /\ pending' = PendingAfterSnap(c, blk[c])
           /\ pc' = [pc EXCEPT ![c] = nxt.pc]
           /\ blk' = [blk EXCEPT ![c] = nxt.blk]
           /\ cur' = [cur EXCEPT ![c] = nxt.cur]
           /\ active' = [active EXCEPT ![c] = nxt.active]
           /\ iter' = [iter EXCEPT ![c] = nxt.iter]
    /\ UNCHANGED <<mask, handle, registry, uev, claimRet, irq, evreg, now,
                   deadline, wake, rlog, progress, entryPending>>
    /\ UNCHANGED auxVars

\* A plausible slip: every resume call counts as progress.
WakeAfter_Always(w, r) == TRUE

\* Lines 466 and 476: wake = wake || lua_toboolean(ls, -1).
WakeAfter(w, r) == w \/ r

\* Lines 463-467 and 471-477: one call of the resume function (argument 1 of
\* mod_dispatch) on a watcher; r is the value it returns. The keys of a
\* table come in no particular order. After the last watcher of a slot the
\* scan of the remaining active bits goes on.
dispatch_resume_step(c, t, r) ==
    /\ pc[c] = "resume" /\ irq[c] = "none"
    /\ t \in iter[c]
    /\ wake' = [wake EXCEPT ![c] = WakeAfter(@, r)]
    /\ rlog' = [rlog EXCEPT ![c] = Append(@, <<cur[c], t>>)]
    /\ progress' = [progress EXCEPT ![c] = @ \/ r]
    /\ IF iter[c] = {t}
       THEN LET nxt == AfterScan(c, active[c], blk[c])
            IN  /\ pc' = [pc EXCEPT ![c] = nxt.pc]
                /\ blk' = [blk EXCEPT ![c] = nxt.blk]
                /\ cur' = [cur EXCEPT ![c] = nxt.cur]
                /\ active' = [active EXCEPT ![c] = nxt.active]
                /\ iter' = [iter EXCEPT ![c] = nxt.iter]
       ELSE /\ iter' = [iter EXCEPT ![c] = @ \ {t}]
            /\ UNCHANGED <<pc, blk, cur, active>>
    /\ UNCHANGED <<pending, mask, handle, registry, uev, claimRet, irq, evreg,
                   now, deadline, entryPending>>

\* The resume call when the model leaves open what the resume function does
\* with the thread: it returns either value.
dispatch_resume(c, t, r) ==
    /\ dispatch_resume_step(c, t, r)
    /\ UNCHANGED auxVars

\* Lines 465 and 475: lua_call is not a protected call, so an error raised by
\* the call of the resume function on watcher t leaves mod_dispatch at once,
\* which ends the life of its locals: the rest of the snapshot (active) and
\* the position in the watcher table are gone, while the bits of the
\* snapshot stay cleared in event_state.pending (line 453).
dispatch_resume_error(c, t) ==
    /\ pc[c] = "resume" /\ irq[c] = "none"
    /\ t \in iter[c]
    /\ pc' = [pc EXCEPT ![c] = "run"]
    /\ deadline' = [deadline EXCEPT ![c] = nil_time]
    /\ blk' = [blk EXCEPT ![c] = 0]
    /\ active' = [active EXCEPT ![c] = {}]
    /\ cur' = [cur EXCEPT ![c] = NoEvent]
    /\ iter' = [iter EXCEPT ![c] = {}]
    /\ wake' = [wake EXCEPT ![c] = FALSE]
    /\ rlog' = [rlog EXCEPT ![c] = << >>]
    /\ progress' = [progress EXCEPT ![c] = FALSE]
    /\ entryPending' = [entryPending EXCEPT ![c] = {}]
    /\ UNCHANGED <<pending, mask, handle, registry, uev, claimRet, irq, evreg,
                   now>>
    /\ UNCHANGED auxVars

\* A plausible slip: the pass ends the call only after progress.
MustReturn_WakeOnly(c) == wake[c]

\* Line 489.
MustReturn(c) ==
    wake[c] \/ is_nil_time(deadline[c]) \/ time_reached(deadline[c])

\* Lines 488-489 and 498: the end of a pass; return, which ends the life of
\* the locals, or go on to wait.
dispatch_check(c) ==
    /\ pc[c] = "check" /\ irq[c] = "none"
    /\ IF MustReturn(c)
       THEN /\ pc' = [pc EXCEPT ![c] = "run"]
            /\ deadline' = [deadline EXCEPT ![c] = nil_time]
            /\ blk' = [blk EXCEPT ![c] = 0]
            /\ rlog' = [rlog EXCEPT ![c] = << >>]
            /\ progress' = [progress EXCEPT ![c] = FALSE]
            /\ entryPending' = [entryPending EXCEPT ![c] = {}]
            /\ wake' = [wake EXCEPT ![c] = FALSE]
       ELSE /\ pc' = [pc EXCEPT ![c] = "wfe"]
            /\ UNCHANGED <<deadline, blk, rlog, progress, entryPending, wake>>
    /\ UNCHANGED <<pending, mask, handle, registry, uev, claimRet, irq, evreg,
                   now, active, cur, iter>>
    /\ UNCHANGED auxVars

\* A plausible slip: the loop polls, it does not wait.
WfeReturns_Always(c) == TRUE

\* Lines 492-496: __wfe() returns once the core's event register is set;
\* best_effort_wfe_or_timeout(deadline) also returns once the deadline is
\* reached.
WfeReturns(c) ==
    \/ evreg[c]
    \/ ~is_at_the_end_of_time(deadline[c]) /\ time_reached(deadline[c])

\* Lines 491-497 and 444-447: leave the wait, which clears the event
\* register, and start the next pass.
dispatch_wfe(c) ==
    /\ pc[c] = "wfe" /\ irq[c] = "none"
    /\ WfeReturns(c)
    /\ evreg' = [evreg EXCEPT ![c] = FALSE]
    /\ pc' = [pc EXCEPT ![c] = "snap"]
    /\ blk' = [blk EXCEPT ![c] = 0]
    /\ wake' = [wake EXCEPT ![c] = FALSE]
    /\ rlog' = [rlog EXCEPT ![c] = << >>]
    /\ progress' = [progress EXCEPT ![c] = FALSE]
    /\ entryPending' = [entryPending EXCEPT ![c] = WatchedPending(c)]
    /\ UNCHANGED <<pending, mask, handle, registry, uev, claimRet, irq, now,
                   deadline, active, cur, iter>>
    /\ UNCHANGED auxVars

\* The clock advances.
Tick ==
    /\ now < MaxTime
    /\ now' = now + 1
    /\ UNCHANGED <<pending, mask, handle, registry, pc, uev, claimRet, irq,
                   evreg>>
    /\ UNCHANGED dispVars
    /\ UNCHANGED auxVars

\* ---- mlua_event_yield, mlua_event_suspend, mlua_event_wait ---------------
\* Line 396: what lua_yieldk can do in context x. In a coroutine it
\* suspends the coroutine and does not return. Elsewhere Lua raises an
\* error; the code also provides for a lua_yieldk that returns.
lua_yieldk(x) == IF lua_isyieldable(x) THEN {"yield"} ELSE {"error", "return"}

\* A plausible slip: the call after lua_yieldk lets the caller go on.
AfterYieldReturns_Normally == "result"

\* Line 397: what the caller gets when lua_yieldk returns:
\* luaL_error(ls, "unable to yield").
AfterYieldReturns == "unable to yield"

\* Lines 402-407: the one value mlua_event_suspend pushes and yields: the
\* value at the index, which is the deadline dl, when the index is not 0,
\* and otherwise the boolean true.
SuspendValue(index, dl) ==
    IF index # 0 THEN [kind |-> "integer", at |-> dl]
    ELSE [kind |-> "boolean", at |-> 1]

\* The index a caller of mlua_event_wait passes for the deadline dl: 0 when
\* it has no deadline, which the model writes dl = at_the_end_of_time.
WaitIndex(dl) == IF is_at_the_end_of_time(dl) THEN 0 ELSE 1

\* Lines 394-408: mlua_event_suspend and mlua_event_yield in context x, whose
\* record is rec; y is what lua_yieldk does.
Yielded(x, rec, y) ==
    CASE y = "yield" ->
            [rec EXCEPT !.st = "suspended", !.susp = @ + 1,
                        !.yv = SuspendValue(rec.idx, rec.dl)]
      [] y = "error" ->
            [rec EXCEPT !.st = "out",
                        !.ret = "attempt to yield from outside a coroutine"]
      [] y = "return" -> [rec EXCEPT !.st = "out", !.ret = AfterYieldReturns]

\* A plausible slip: the range check of the event is missing.
WaitRejects_Never(ev) == FALSE

\* Line 416: event >= NUM_EVENTS, "wait for unclaimed event".
WaitRejects(ev) == ev >= NUM_EVENTS

\* A plausible slip: any result of try_get ends the wait.
TryDone_Always(res) == TRUE

\* Lines 418 and 435: res >= 0.
TryDone(res) == res >= 0

\* A plausible slip: the thread is registered before try_get is called.
FirstTryEntry_WatchFirst(entry, x, res) == WatchedEntry(entry, x)

\* Lines 417-419: the registry entry of the event after the first try_get
\* of a wait in a coroutine x.
FirstTryEntry(entry, x, res) ==
    IF TryDone(res) THEN entry ELSE WatchedEntry(entry, x)

\* Lines 414-428: mlua_event_wait called in context x with the value ev of
\* an MLuaEvent and the deadline dl; res is what try_get returns. The
\* context runs up to its return, its error or its suspension.
mlua_event_wait(x, ev, dl, res, y) ==
    /\ Running(CtxCore(x))
    /\ thr[x].st = "out"
    /\ y \in lua_yieldk(x)
    /\ LET c == CtxCore(x)
           tried == [IdleThread EXCEPT !.tries = 1]
       IN  IF WaitRejects(ev)
           THEN /\ thr' = [thr EXCEPT ![x] =
                    [IdleThread EXCEPT !.ret = "wait for unclaimed event"]]
                /\ UNCHANGED registry
           ELSE IF ev >= NUM_EVENTS /\ ~TryDone(res)
           THEN /\ thr' = [thr EXCEPT ![x] =
                          [tried EXCEPT !.ret = "watching disabled event"]]
                /\ UNCHANGED registry
           ELSE IF ev >= NUM_EVENTS \/ (TryDone(res) /\ ~lua_isyieldable(x))
           THEN /\ thr' = [thr EXCEPT ![x] =
                          [tried EXCEPT !.ret = "result", !.val = res]]
                /\ UNCHANGED registry
           ELSE IF ~lua_isyieldable(x)
           THEN /\ thr' = [thr EXCEPT ![x] =
                    [tried EXCEPT
                       !.ret = "watching event in unyieldable thread"]]
                /\ UNCHANGED registry
           ELSE /\ registry' =
                     [registry EXCEPT ![c][ev] = FirstTryEntry(@, x, res)]
                /\ thr' = [thr EXCEPT ![x] =
                   IF TryDone(res)
                   THEN [tried EXCEPT !.ret = "result", !.val = res]
                   ELSE Yielded(x, [tried EXCEPT !.ev = ev, !.dl = dl,
                                                 !.idx = WaitIndex(dl)], y)]
    /\ UNCHANGED <<pending, mask, handle, pc, uev, claimRet, irq, evreg, now,
                   lock, lop>>
    /\ UNCHANGED dispVars

\* Lines 430-438: mlua_event_wait_2, the continuation of a wait, run when
\* the scheduler gives the resumed thread t the core.
mlua_event_wait_2(t, res) ==
    /\ Running(CoreOf(t))
    /\ thr[t].st = "ready"
    /\ thr[t].ev < NUM_EVENTS
    /\ thr[t].tries <= MaxCycles
    /\ LET tried == [thr[t] EXCEPT !.tries = @ + 1]
       IN  IF TryDone(res)
           THEN /\ registry' = [registry EXCEPT ![CoreOf(t)][thr[t].ev] =
                                   UnwatchedEntry(@, t)]
                /\ thr' = [thr EXCEPT ![t] =
                             [tried EXCEPT !.st = "out", !.ret = "result",
                                           !.val = res, !.ev = NoEvent,
                                           !.dl = at_the_end_of_time,
                                           !.idx = 0, !.yv = NoValue]]
           ELSE /\ thr' = [thr EXCEPT ![t] = Yielded(t, tried, "yield")]
                /\ UNCHANGED registry
    /\ UNCHANGED <<pending, mask, handle, pc, uev, claimRet, irq, evreg, now,
                   lock, lop>>
    /\ UNCHANGED dispVars

\* A plausible slip: the sleep is over at the first resume, whatever the time.
SleepOver_Always(dl) == TRUE

\* Line 35: if (time_reached(t)) return 0.
SleepOver(dl) == time_reached(dl)

\* Lines 30-39: mod_sleep_until in context x, which suspends with the
\* deadline unless the time is reached.
mod_sleep_until(x, dl, y) ==
    /\ Running(CtxCore(x))
    /\ thr[x].st = "out"
    /\ y \in lua_yieldk(x)
    /\ thr' = [thr EXCEPT ![x] =
                 IF SleepOver(dl)
                 THEN [IdleThread EXCEPT !.ret = "result", !.val = 0]
                 ELSE Yielded(x, [IdleThread EXCEPT !.dl = dl, !.idx = 1], y)]
    /\ UNCHANGED <<pending, mask, handle, registry, pc, uev, claimRet, irq,
                   evreg, now, lock, lop>>
    /\ UNCHANGED dispVars

\* Lines 41-43: mod_sleep_until_1, the continuation of a sleep, run when
\* the scheduler gives the resumed thread t the core.
mod_sleep_until_1(t) ==
    /\ Running(CoreOf(t))
    /\ thr[t].st = "ready"
    /\ thr[t].ev = NoEvent
    /\ thr[t].susp <= MaxCycles
    /\ thr' = [thr EXCEPT ![t] =
                 IF SleepOver(thr[t].dl)
                 THEN [@ EXCEPT !.st = "out", !.ret = "result", !.val = 0,
                                !.dl = at_the_end_of_time, !.idx = 0,
                                !.yv = NoValue]
                 ELSE Yielded(t, @, "yield")]
    /\ UNCHANGED <<pending, mask, handle, registry, pc, uev, claimRet, irq,
                   evreg, now, lock, lop>>
    /\ UNCHANGED dispVars

\* The resume function passed to mod_dispatch "resumes a thread, and returns
\* true iff the thread was actually resumed": a suspended thread becomes
\* ready to run.
dispatch_resume_thread(c, t) ==
    /\ dispatch_resume_step(c, t, thr[t].st = "suspended")
    /\ thr' = [thr EXCEPT ![t] =
                 IF @.st = "suspended"
                 THEN [@ EXCEPT !.st = "ready", !.wakes = @ + 1]
                 ELSE @]
    /\ UNCHANGED <<lock, lop>>

\* The scheduler resumes a thread that has suspended with a deadline once
\* the deadline is reached.
resume_deadline(t) ==
    /\ Running(CoreOf(t))
    /\ thr[t].st = "suspended"
    /\ ~is_at_the_end_of_time(thr[t].dl)
    /\ time_reached(thr[t].dl)
    /\ thr' = [thr EXCEPT ![t] = [@ EXCEPT !.st = "ready", !.wakes = @ + 1]]
    /\ UNCHANGED <<pending, mask, handle, registry, pc, uev, claimRet, irq,
                   evreg, now, lock, lop>>
    /\ UNCHANGED dispVars

\* Another thread resumes the suspended thread t by hand, at any time:
\* the thread becomes ready to run whatever its deadline.
thread_resume(t) ==
    /\ Running(CoreOf(t))
    /\ thr[t].st = "suspended"
    /\ thr' = [thr EXCEPT ![t] = [@ EXCEPT !.st = "ready", !.wakes = @ + 1]]
    /\ UNCHANGED <<pending, mask, handle, registry, pc, uev, claimRet, irq,
                   evreg, now, lock, lop>>
    /\ UNCHANGED dispVars

\* mlua_thread_kill, called by mod_cancel_alarm (line 121) and by the close
\* of a thread group, on a thread t that is suspended: the thread is dead
\* from then on and its continuation never runs. The table of watchers is
\* reachable through the address of the static event_state only (lines 211,
\* 332), and mlua_event_unwatch removes the calling thread only (lines
\* 370-391), so the call leaves the registry as it is.
mlua_thread_kill(t) ==
    /\ Running(CoreOf(t))
    /\ thr[t].st = "suspended"
    /\ thr' = [thr EXCEPT ![t] = [@ EXCEPT !.st = "dead"]]
    /\ UNCHANGED <<pending, mask, handle, registry, pc, uev, claimRet, irq,
                   evreg, now, lock, lop>>
    /\ UNCHANGED dispVars

\* ---- a thread group of event handler threads ----------------------------
\* The members of the group of core c: the threads of the core, each
\* started by the group as a handler that waits for its slot again and
\* again. The group is closed from the main context of the core.
GroupMembers(c) == ThreadsOf(c)
Closing(c) == thr[MainCtx(c)].st = "closing"
Alive(t) == thr[t].st # "dead"

\* The end of a thread, by return, error or cancellation: the exit handler
\* runs (part_002 lines 96-101: "called when the thread exits") and the
\* thread is dead.
Exited(rec) == [rec EXCEPT !.st = "dead", !.exits = @ + 1]

\* A plausible slip: close returns without waiting for the members.
CloseMayReturn_Early(c) == TRUE

\* The join at the end of close: every member is dead.
CloseMayReturn(c) == \A t \in GroupMembers(c) : ~Alive(t)

\* A handler thread t that has returned from a wait ends by itself.
thread_exit(t) ==
    /\ Running(CoreOf(t))
    /\ ~Closing(CoreOf(t))
    /\ thr[t].st = "out" /\ thr[t].ret = "result"
    /\ thr' = [thr EXCEPT ![t] = Exited(@)]
    /\ UNCHANGED <<pending, mask, handle, registry, pc, uev, claimRet, irq,
                   evreg, now, lock, lop>>
    /\ UNCHANGED dispVars

\* The close of the group of core c begins. Threads are cooperative: while
\* the closing context runs, every member that is alive stands at a
\* suspension point.
group_close(c) ==
    /\ Running(c)
    /\ thr[MainCtx(c)].st = "out" /\ thr[MainCtx(c)].ret # "closed"
    /\ \A t \in GroupMembers(c) : thr[t].st \in {"suspended", "ready", "dead"}
    /\ thr' = [thr EXCEPT ![MainCtx(c)].st = "closing"]
    /\ UNCHANGED <<pending, mask, handle, registry, pc, uev, claimRet, irq,
                   evreg, now, lock, lop>>
    /\ UNCHANGED dispVars

\* close cancels a member that is still alive: the thread is killed at its
\* suspension point.
group_cancel(c, t) ==
    /\ Running(c)
    /\ Closing(c)
    /\ t \in GroupMembers(c) /\ Alive(t)
    /\ thr' = [thr EXCEPT ![t] = Exited(@)]
    /\ UNCHANGED <<pending, mask, handle, registry, pc, uev, claimRet, irq,
                   evreg, now, lock, lop>>
    /\ UNCHANGED dispVars

\* close joins the members and returns.
group_join(c) ==
    /\ Running(c)
    /\ Closing(c)
    /\ CloseMayReturn(c)
    /\ thr' = [thr EXCEPT ![MainCtx(c)] =
                 [@ EXCEPT !.st = "out", !.ret = "closed"]]
    /\ UNCHANGED <<pending, mask, handle, registry, pc, uev, claimRet, irq,
                   evreg, now, lock, lop>>
    /\ UNCHANGED dispVars

\* ---- inputs -------------------------------------------------------------
\* MLuaEvent variables that hold no slot are interchangeable: an operation
\* is tried on every variable that holds a slot and on one that holds none.
HeldHandles == {h \in Handles : handle[h] < NUM_EVENTS}
UnsetHandles == Handles \ HeldHandles
HandleInputs ==
    HeldHandles \cup (IF UnsetHandles = {} THEN {} ELSE {Min(UnsetHandles)})
\* The event ids a caller can pass: the value of one of these variables.
EventInputs == {handle[h] : h \in HandleInputs}
\* The specifications with watchers use the first NumClaims variables only.
FewHandles == HandleInputs \cap (1 .. NumClaims)
FewEvents == {handle[h] : h \in FewHandles}

ClaimedAll == UNION {mask[c] : c \in Cores}

\* ---- the slot table: claim, unclaim, set and clear on both cores --------
Next ==
    \/ \E c \in Cores, h \in HandleInputs : mlua_event_claim(c, h)
    \/ \E c \in Cores, h \in HandleInputs : mlua_event_unclaim(c, h)
    \/ \E c \in Cores : mlua_event_unclaim_purge(c)
    \/ \E c \in Cores, ev \in EventInputs : mlua_event_set(c, ev)
    \/ \E c \in Cores : mlua_event_set_sev(c)
    \/ \E c \in Cores, ev \in EventInputs : mlua_event_clear(c, ev)

Spec == Init /\ [][Next]_vars

\* ---- the claimed-masks alone: claim and unclaim on both cores ------------
NextTable ==
    \/ \E c \in Cores, h \in HandleInputs : mlua_event_claim(c, h)
    \/ \E c \in Cores, h \in HandleInputs : mlua_event_unclaim(c, h)
    \/ \E c \in Cores : mlua_event_unclaim_purge(c)

SpecTable == Init /\ [][NextTable]_vars

\* ---- slots and their watchers: claim, unclaim, watch and unwatch --------
\* The threads watch and unwatch the slots held by the MLuaEvent variables.
NextWatch ==
    \/ \E c \in Cores, h \in FewHandles : mlua_event_claim(c, h)
    \/ \E c \in Cores, h \in FewHandles : mlua_event_unclaim(c, h)
    \/ \E c \in Cores : mlua_event_unclaim_purge(c)
    \/ \E t \in Threads, ev \in FewEvents \cap Events :
            mlua_event_watch(t, ev)
    \/ \E t \in Threads, ev \in FewEvents : mlua_event_unwatch(t, ev)

SpecWatch == Init /\ [][NextWatch]_vars

\* ---- the registries of both cores ---------------------------------------
\* Both cores claim and unclaim, their threads watch and unwatch the slots
\* held by the MLuaEvent variables, whoever owns them; events are set from
\* core 0 and core 1 dispatches.
NextRegistry ==
    \/ \E c \in Cores, h \in FewHandles : mlua_event_claim(c, h)
    \/ \E c \in Cores, h \in FewHandles : mlua_event_unclaim(c, h)
    \/ \E c \in Cores : mlua_event_unclaim_purge(c)
    \/ \E t \in Threads, ev \in FewEvents \cap Events :
            mlua_event_watch(t, ev)
    \/ \E t \in Threads, ev \in FewEvents : mlua_event_unwatch(t, ev)
    \/ \E ev \in FewEvents : mlua_event_set(0, ev)
    \/ mlua_event_set_sev(0)
    \/ mod_dispatch(1, nil_time)
    \/ dispatch_snap(1)
    \/ \E t \in Threads : dispatch_resume(1, t, TRUE)
    \/ dispatch_check(1)

SpecRegistry == Init /\ [][NextRegistry]_vars

\* ---- watch in any context, for any MLuaEvent ----------------------------
\* Core 0 claims and unclaims; its threads and its main context watch, with
\* the value of any of the MLuaEvent variables; its threads unwatch.
NextWatchAny ==
    \/ \E h \in FewHandles : mlua_event_claim(0, h)
    \/ \E h \in FewHandles : mlua_event_unclaim(0, h)
    \/ mlua_event_unclaim_purge(0)
    \/ \E x \in ThreadsOf(0) \cup {MainCtx(0)}, ev \in FewEvents :
            mlua_event_watch(x, ev)
    \/ \E t \in ThreadsOf(0), ev \in FewEvents : mlua_event_unwatch(t, ev)

SpecWatchAny == Init /\ [][NextWatchAny]_vars

\* ---- dispatch on both cores ---------------------------------------------
\* The state after the producers have claimed the first three slots (the
\* first block and the first slot of the second) on either core, and the
\* threads of each core have registered as watchers: on every core, all its
\* threads watch slot 0, its first thread watches the last of the three
\* slots, and nobody watches the slot in between.
ScenarioSlots == 0 .. BlockBits

RECURSIVE WatchAll(_, _)
WatchAll(entry, ts) ==
    IF ts = {} THEN entry
    ELSE WatchAll(WatchedEntry(entry, Min(ts)), ts \ {Min(ts)})

ScenarioEntry(c, e) ==
    IF e = 0 THEN WatchAll(NilEntry, ThreadsOf(c))
    ELSE IF e = BlockBits THEN WatchAll(NilEntry, {Min(ThreadsOf(c))})
    ELSE NilEntry

InitScenario ==
    /\ pending = {}
    /\ \E owner \in [ScenarioSlots -> Cores] :
         mask = [c \in Cores |-> {e \in ScenarioSlots : owner[e] = c}]
    /\ handle = [h \in Handles |->
                   IF h - 1 \in ScenarioSlots THEN h - 1 ELSE MLUA_EVENT_UNSET]
    /\ registry = [c \in Cores |-> [e \in Events |-> ScenarioEntry(c, e)]]
    /\ pc = [c \in Cores |-> "run"]
    /\ uev = [c \in Cores |-> NoEvent]
    /\ claimRet = "NULL"
    /\ irq = [c \in Cores |-> "none"]
    /\ evreg = [c \in Cores |-> FALSE]
    /\ now = 0
    /\ deadline = [c \in Cores |-> nil_time]
    /\ blk = [c \in Cores |-> 0]
    /\ active = [c \in Cores |-> {}]
    /\ cur = [c \in Cores |-> NoEvent]
    /\ iter = [c \in Cores |-> {}]
    /\ wake = [c \in Cores |-> FALSE]
    /\ rlog = [c \in Cores |-> << >>]
    /\ progress = [c \in Cores |-> FALSE]
    /\ entryPending = [c \in Cores |-> {}]
    /\ thr = [x \in Contexts |-> IdleThread]
    /\ lock = NoAgent
    /\ lop = [a \in Agents |-> IdleOp]

\* Both cores call mod_dispatch with the "already past" deadline, while
\* events are set from either core.
NextDispatch ==
    \/ \E c \in Cores, ev \in EventInputs : mlua_event_set(c, ev)
    \/ \E c \in Cores : mlua_event_set_sev(c)
    \/ \E c \in Cores : mod_dispatch(c, nil_time)
    \/ \E c \in Cores : dispatch_snap(c)
    \/ \E c \in Cores, t \in Threads, r \in BOOLEAN : dispatch_resume(c, t, r)
    \/ \E c \in Cores : dispatch_check(c)

SpecDispatch == InitScenario /\ [][NextDispatch]_vars

\* ---- dispatch with a deadline -------------------------------------------
\* Core 0 calls mod_dispatch with any deadline, while the clock advances and
\* events are set from either core.
NextDeadline ==
    \/ \E c \in Cores, ev \in EventInputs : mlua_event_set(c, ev)
    \/ \E c \in Cores : mlua_event_set_sev(c)
    \/ \E d \in Deadlines : mod_dispatch(0, d)
    \/ dispatch_snap(0)
    \/ \E t \in Threads, r \in BOOLEAN : dispatch_resume(0, t, r)
    \/ dispatch_check(0)
    \/ dispatch_wfe(0)
    \/ Tick

SpecDeadline == InitScenario /\ [][NextDeadline]_vars

\* ---- the pending bitmap: set and clear next to a dispatch ----------------
\* Events are set and cleared from either core, with any value an MLuaEvent
\* can hold, while core 0 calls mod_dispatch with the "already past"
\* deadline.
NextPending ==
    \/ \E c \in Cores, ev \in EventInputs : mlua_event_set(c, ev)
    \/ \E c \in Cores : mlua_event_set_sev(c)
    \/ \E c \in Cores, ev \in EventInputs : mlua_event_clear(c, ev)
    \/ mod_dispatch(0, nil_time)
    \/ dispatch_snap(0)
    \/ \E t \in Threads, r \in BOOLEAN : dispatch_resume(0, t, r)
    \/ dispatch_check(0)

SpecPending == InitScenario /\ [][NextPending]_vars

\* ---- a resume function that fails ---------------------------------------
\* Core 0 calls mod_dispatch with the "already past" deadline while events
\* are set from either core, and a call of the resume function returns
\* either value or raises an error.
NextResumeError ==
    \/ \E c \in Cores, ev \in EventInputs : mlua_event_set(c, ev)
    \/ \E c \in Cores : mlua_event_set_sev(c)
    \/ mod_dispatch(0, nil_time)
    \/ dispatch_snap(0)
    \/ \E t \in Threads, r \in BOOLEAN : dispatch_resume(0, t, r)
    \/ \E t \in Threads : dispatch_resume_error(0, t)
    \/ dispatch_check(0)

SpecResumeError == InitScenario /\ [][NextResumeError]_vars

\* ---- threads that wait and sleep on core 0 ------------------------------
\* Core 0 has claimed the given slots and nobody watches them yet.
WaitInit(slots) ==
    /\ pending = {}
    /\ mask = [c \in Cores |-> IF c = 0 THEN slots ELSE {}]
    /\ handle = [h \in Handles |->
                   IF h - 1 \in slots THEN h - 1 ELSE MLUA_EVENT_UNSET]
    /\ registry = [c \in Cores |-> [e \in Events |-> NilEntry]]
    /\ pc = [c \in Cores |-> "run"]
    /\ uev = [c \in Cores |-> NoEvent]
    /\ claimRet = "NULL"
    /\ irq = [c \in Cores |-> "none"]
    /\ evreg = [c \in Cores |-> FALSE]
    /\ now = 0
    /\ deadline = [c \in Cores |-> nil_time]
    /\ blk = [c \in Cores |-> 0]
    /\ active = [c \in Cores |-> {}]
    /\ cur = [c \in Cores |-> NoEvent]
    /\ iter = [c \in Cores |-> {}]
    /\ wake = [c \in Cores |-> FALSE]
    /\ rlog = [c \in Cores |-> << >>]
    /\ progress = [c \in Cores |-> FALSE]
    /\ entryPending = [c \in Cores |-> {}]
    /\ thr = [x \in Contexts |-> IdleThread]
    /\ lock = NoAgent
    /\ lop = [a \in Agents |-> IdleOp]

\* The first NumClaims slots are claimed.
InitWait == WaitInit(0 .. (NumClaims - 1))

\* The contexts of core 0: its threads and its main context.
WaitContexts == ThreadsOf(0) \cup {MainCtx(0)}

\* What lua_yieldk can be asked to do.
YieldOutcomes == {"yield", "error", "return"}

\* The threads of core 0 call mlua_event_wait without a deadline; the host
\* loop of core 0 calls mod_dispatch with the "already past" deadline and
\* runs the resumed threads; events are set from core 1.
NextWait ==
    \/ \E t \in ThreadsOf(0), ev \in EventInputs, res \in TryResults,
          y \in YieldOutcomes :
            mlua_event_wait(t, ev, at_the_end_of_time, res, y)
    \/ \E t \in ThreadsOf(0), res \in TryResults : mlua_event_wait_2(t, res)
    \/ \E ev \in EventInputs : mlua_event_set(1, ev)
    \/ mlua_event_set_sev(1)
    \/ mod_dispatch(0, nil_time)
    \/ dispatch_snap(0)
    \/ \E t \in Threads : dispatch_resume_thread(0, t)
    \/ dispatch_check(0)

SpecWait == InitWait /\ [][NextWait]_vars

\* ---- waits with a deadline ----------------------------------------------
\* One slot is claimed.
InitTimedWait == WaitInit({0})

\* A wait has the deadline MaxTime or none.
WaitDeadlines == {MaxTime, at_the_end_of_time}

\* As NextWait, with deadlines: the clock advances and the scheduler
\* resumes a thread whose deadline is reached; core 0 can unclaim the slot.
NextTimedWait ==
    \/ \E t \in ThreadsOf(0), ev \in EventInputs, dl \in WaitDeadlines,
          res \in TryResults, y \in YieldOutcomes :
            mlua_event_wait(t, ev, dl, res, y)
    \/ \E t \in ThreadsOf(0), res \in TryResults : mlua_event_wait_2(t, res)
    \/ \E t \in ThreadsOf(0) : resume_deadline(t)
    \/ \E ev \in EventInputs : mlua_event_set(1, ev)
    \/ mlua_event_set_sev(1)
    \/ \E h \in HandleInputs : mlua_event_unclaim(0, h)
    \/ mlua_event_unclaim_purge(0)
    \/ mod_dispatch(0, nil_time)
    \/ dispatch_snap(0)
    \/ \E t \in Threads : dispatch_resume_thread(0, t)
    \/ dispatch_check(0)
    \/ Tick

SpecTimedWait == InitTimedWait /\ [][NextTimedWait]_vars

\* ---- waiting threads that are killed ------------------------------------
\* As NextWait on one slot, and a thread suspended in its wait can be
\* killed.
NextKill ==
    \/ \E t \in ThreadsOf(0), ev \in EventInputs, res \in TryResults,
          y \in YieldOutcomes :
            mlua_event_wait(t, ev, at_the_end_of_time, res, y)
    \/ \E t \in ThreadsOf(0), res \in TryResults : mlua_event_wait_2(t, res)
    \/ \E t \in ThreadsOf(0) : mlua_thread_kill(t)
    \/ \E ev \in EventInputs : mlua_event_set(1, ev)
    \/ mlua_event_set_sev(1)
    \/ mod_dispatch(0, nil_time)
    \/ dispatch_snap(0)
    \/ \E t \in Threads : dispatch_resume_thread(0, t)
    \/ dispatch_check(0)

SpecKill == InitTimedWait /\ [][NextKill]_vars

\* ---- handler threads in a group that is closed --------------------------
\* The threads of core 0 are the members of a group: they wait for the
\* slots, are resumed by the dispatch of core 0 and may end by themselves;
\* the main context of core 0 closes the group. Nothing else runs on the
\* core while the close is under way.
NextGroup ==
    \/ \E t \in GroupMembers(0), ev \in EventInputs, res \in TryResults,
          y \in YieldOutcomes :
            ~Closing(0) /\ mlua_event_wait(t, ev, at_the_end_of_time, res, y)
    \/ \E t \in GroupMembers(0), res \in TryResults :
            ~Closing(0) /\ mlua_event_wait_2(t, res)
    \/ \E t \in GroupMembers(0) : thread_exit(t)
    \/ \E ev \in EventInputs : mlua_event_set(1, ev)
    \/ mlua_event_set_sev(1)
    \/ ~Closing(0) /\ mod_dispatch(0, nil_time)
    \/ dispatch_snap(0)
    \/ \E t \in Threads : dispatch_resume_thread(0, t)
    \/ dispatch_check(0)
    \/ group_close(0)
    \/ \E t \in GroupMembers(0) : group_cancel(0, t)
    \/ group_join(0)

SpecGroup == InitWait /\ [][NextGroup]_vars

\* ---- contexts that sleep, and the main context --------------------------
\* The contexts of core 0 call mod_sleep_until, the scheduler resumes the
\* sleeping threads at their deadlines, and the main context of core 0
\* calls mlua_event_wait.
NextSleep ==
    \/ \E x \in WaitContexts, dl \in Deadlines, y \in YieldOutcomes :
            mod_sleep_until(x, dl, y)
    \/ \E t \in ThreadsOf(0) : mod_sleep_until_1(t)
    \/ \E t \in ThreadsOf(0) : resume_deadline(t)
    \/ \E ev \in EventInputs, dl \in WaitDeadlines, res \in TryResults,
          y \in YieldOutcomes :
            mlua_event_wait(MainCtx(0), ev, dl, res, y)
    \/ \E ev \in EventInputs : mlua_event_set(1, ev)
    \/ mlua_event_set_sev(1)
    \/ Tick

SpecSleep == InitWait /\ [][NextSleep]_vars

\* As NextSleep, with sleeping threads that are resumed before their
\* deadlines.
NextEarlyWake ==
    \/ NextSleep
    \/ \E t \in ThreadsOf(0) : thread_resume(t)

SpecEarlyWake == InitWait /\ [][NextEarlyWake]_vars

\* ---- the locked sections, statement by statement ------------------------
\* mlua_event_lock by agent a: a spin lock taken with the interrupts of the
\* agent's core disabled; a gets it when nobody holds it.
mlua_event_lock(a) == lock = NoAgent /\ lock' = a

\* mlua_event_unlock by agent a: the lock is free again and the interrupts
\* of the core are as they were.
mlua_event_unlock(a) == lock' = IF lock = a THEN NoAgent ELSE lock

\* The main code of a core runs when no interrupt handler of the core is
\* active; a handler runs to its end once started.
CanRun(a) ==
    IF IsHandler(a) THEN TRUE ELSE lop[a + NUM_CORES].ph = "idle"

\* An interrupt handler starts on its core when none is active there and
\* the interrupts are enabled: no agent of the core holds the lock.
CanInterrupt(a) ==
    /\ lop[a].ph = "idle"
    /\ lock = NoAgent \/ AgentCore(lock) # AgentCore(a)

\* A plausible slip: mlua_event_clear updates the word without the lock.
TakesLock_NotClear(op) == op \in {"claim", "unclaim", "set", "snap"}

\* Lines 214, 240, 310, 318 and 450: the operations that call
\* mlua_event_lock before they read the masks or the pending bitmap.
TakesLock(op) == op \in {"claim", "unclaim", "set", "clear", "snap"}

\* Lines 308-310, 316-318, 214, 240 and 450: agent a enters operation op
\* with argument arg (an MLuaEvent variable for claim and unclaim, an event
\* id for set and clear, a block for the snapshot of mod_dispatch). set and
\* clear return at once for an id >= NUM_EVENTS; interrupt handlers call set
\* and clear only.
op_begin(a, op, arg) ==
    /\ lop[a].ph = "idle"
    /\ IF IsHandler(a)
       THEN CanInterrupt(a) /\ op \in {"set", "clear"}
       ELSE CanRun(a)
    /\ op \in {"set", "clear"} => arg < NUM_EVENTS
    /\ IF TakesLock(op) THEN mlua_event_lock(a) ELSE UNCHANGED lock
    /\ lop' = [lop EXCEPT ![a] =
                 [IdleOp EXCEPT !.op = op, !.arg = arg, !.ph = "locked"]]
    /\ UNCHANGED <<pending, mask, handle, registry, pc, uev, claimRet, irq,
                   evreg, now, thr>>
    /\ UNCHANGED dispVars

\* Lines 222-225, 246-247, 311, 319 and 451-452: the agent loads the words
\* it is going to update.
op_read(a) ==
    /\ lop[a].ph = "locked"
    /\ CanRun(a)
    /\ lop' = [lop EXCEPT ![a] =
                 [@ EXCEPT !.rp = pending, !.rm = mask, !.ph = "read"]]
    /\ UNCHANGED <<pending, mask, handle, registry, pc, uev, claimRet, irq,
                   evreg, now, thr, lock>>
    /\ UNCHANGED dispVars

\* Lines 222-226: the lowest slot that is in none of the masks m, or
\* NUM_EVENTS.
LowestFree(m) ==
    LET free == Events \ UNION {m[c] : c \in Cores}
    IN  IF free = {} THEN NUM_EVENTS ELSE Min(free)

\* Lines 229-230, 251-252, 311, 319 and 453: the agent stores the words
\* computed from what it has loaded.
op_write(a) ==
    /\ lop[a].ph = "read"
    /\ CanRun(a)
    /\ LET c == AgentCore(a)
           op == lop[a].op
           arg == lop[a].arg
           rp == lop[a].rp
           rm == lop[a].rm
           e == handle[arg]
       IN  CASE op = "claim" ->
                  /\ IF e >= NUM_EVENTS /\ LowestFree(rm) < NUM_EVENTS
                     THEN /\ mask' = [mask EXCEPT ![c] =
                                       rm[c] \cup {LowestFree(rm)}]
                          /\ handle' = [handle EXCEPT ![arg] = LowestFree(rm)]
                     ELSE UNCHANGED <<mask, handle>>
                  /\ UNCHANGED pending
             [] op = "unclaim" ->
                  /\ IF e < NUM_EVENTS /\ e \in rm[c]
                     THEN /\ mask' = [mask EXCEPT ![c] = rm[c] \ {e}]
                          /\ handle' = [handle EXCEPT ![arg] =
                                         MLUA_EVENT_UNSET]
                     ELSE UNCHANGED <<mask, handle>>
                  /\ UNCHANGED pending
             [] op = "set" ->
                  /\ pending' = rp \cup {arg}
                  /\ UNCHANGED <<mask, handle>>
             [] op = "clear" ->
                  /\ pending' = rp \ {arg}
                  /\ UNCHANGED <<mask, handle>>
             [] op = "snap" ->
                  /\ pending' = rp \ (rm[c] \cap BlockOf(arg))
                  /\ UNCHANGED <<mask, handle>>
    /\ lop' = [lop EXCEPT ![a] = [@ EXCEPT !.ph = "written"]]
    /\ UNCHANGED <<registry, pc, uev, claimRet, irq, evreg, now, thr, lock>>
    /\ UNCHANGED dispVars

\* Lines 217, 231, 235, 243, 249, 254, 312, 320 and 454: the agent leaves
\* the locked section.
op_end(a) ==
    /\ lop[a].ph = "written"
    /\ CanRun(a)
    /\ mlua_event_unlock(a)
    /\ lop' = [lop EXCEPT ![a] = IdleOp]
    /\ UNCHANGED <<pending, mask, handle, registry, pc, uev, claimRet, irq,
                   evreg, now, thr>>
    /\ UNCHANGED dispVars

\* The main code of both cores claims, unclaims, sets, clears and takes
\* the snapshot of mod_dispatch, and an interrupt handler on each core sets
\* and clears, each a statement at a time.
NextLock ==
    \/ \E a \in Agents, h \in HandleInputs, op \in {"claim", "unclaim"} :
            ~IsHandler(a) /\ op_begin(a, op, h)
    \/ \E a \in Agents, ev \in EventInputs, op \in {"set", "clear"} :
            op_begin(a, op, ev)
    \/ \E a \in Agents, b \in Blocks : ~IsHandler(a) /\ op_begin(a, "snap", b)
    \/ \E a \in Agents : op_read(a)
    \/ \E a \in Agents : op_write(a)
    \/ \E a \in Agents : op_end(a)

SpecLock == Init /\ [][NextLock]_vars

\* ---- the operations up to their returns ---------------------------------
\* Lines 216-218, 231-232, 242-244 and 248-250: claim or unclaim by agent a
\* returns without having changed the mask of its core.
FailedPath(a) ==
    /\ lop[a].op \in {"claim", "unclaim"}
    /\ mask[AgentCore(a)] = lop[a].rm[AgentCore(a)]

\* A plausible slip: a return that reports a failure leaves the lock taken.
ReleasesLock_OnSuccess(op, failed) == ~failed

\* Lines 217, 231, 235, 243, 249, 254, 312, 320 and 454: every path out of
\* a locked section calls mlua_event_unlock.
ReleasesLock(op, failed) == TRUE

\* Lines 255-259 and 455-485: what unclaim and mod_dispatch do after the
\* locked section; the other operations, and unclaim on its early returns,
\* return at once.
GoesOn(a) ==
    \/ lop[a].op = "snap"
    \/ lop[a].op = "unclaim" /\ ~FailedPath(a)

\* The end of the locked section of agent a, on every path.
op_return(a) ==
    /\ lop[a].ph = "written"
    /\ CanRun(a)
    /\ IF ReleasesLock(lop[a].op, FailedPath(a))
       THEN mlua_event_unlock(a)
       ELSE UNCHANGED lock
    /\ lop' = [lop EXCEPT ![a] =
                 IF GoesOn(a) THEN [@ EXCEPT !.ph = "after"] ELSE IdleOp]
    /\ UNCHANGED <<pending, mask, handle, registry, pc, uev, claimRet, irq,
                   evreg, now, thr>>
    /\ UNCHANGED dispVars

\* Lines 455-461: the bits of the snapshot that the inner loop of
\* mod_dispatch scans, for the agent a that has taken it.
Drained(a) ==
    (lop[a].rp \cap lop[a].rm[AgentCore(a)]) \cap BlockOf(lop[a].arg)

\* Lines 255-259: unclaim sets the registry entry of the slot it has
\* released to nil. Lines 456-485: mod_dispatch calls the resume function
\* for every watcher of every bit of its snapshot, and r tells whether one
\* of the calls reported progress.
op_after(a, r) ==
    /\ lop[a].ph = "after"
    /\ CanRun(a)
    /\ LET c == AgentCore(a)
       IN  IF lop[a].op = "unclaim"
           THEN /\ registry' =
                     [registry EXCEPT ![c] =
                        [e \in Events |->
                           IF e \in lop[a].rm[c] \ mask[c]
                           THEN PurgedEntry(c, e) ELSE @[e]]]
                /\ r
                /\ UNCHANGED wake
           ELSE /\ wake' = [wake EXCEPT ![c] =
                             @ \/ (r /\ \E e \in Drained(a) :
                                            Watchers(c, e) # {})]
                /\ UNCHANGED registry
    /\ lop' = [lop EXCEPT ![a] = IdleOp]
    /\ UNCHANGED <<pending, mask, handle, pc, uev, claimRet, irq, evreg, now,
                   thr, lock>>
    /\ UNCHANGED <<deadline, blk, active, cur, iter, rlog, progress,
                   entryPending>>

\* The main code of both cores claims, unclaims, sets, clears and
\* dispatches, and an interrupt handler on each core sets, each a statement
\* at a time and up to its return, on the first NumClaims variables.
NextPaths ==
    \/ \E a \in Agents, h \in FewHandles, op \in {"claim", "unclaim"} :
            ~IsHandler(a) /\ op_begin(a, op, h)
    \/ \E a \in Agents, ev \in FewEvents : op_begin(a, "set", ev)
    \/ \E a \in Agents, ev \in FewEvents :
            ~IsHandler(a) /\ op_begin(a, "clear", ev)
    \/ \E a \in Agents, b \in Blocks : ~IsHandler(a) /\ op_begin(a, "snap", b)
    \/ \E a \in Agents : op_read(a)
    \/ \E a \in Agents : op_write(a)
    \/ \E a \in Agents : op_return(a)
    \/ \E a \in Agents, r \in BOOLEAN : op_after(a, r)

\* The scenario in which core 1 has claimed the slot that nobody watches.
InitPaths ==
    /\ InitScenario
    /\ mask[1] = {1}

SpecPaths == InitPaths /\ [][NextPaths]_vars

\* ---- dispatch and its producers, with fair scheduling -------------------
\* Core 0 runs the host loop, which calls mod_dispatch again and again with
\* any deadline; events are set from core 1 and from interrupts on core 0.
\* An interrupt handler that has set a bit goes on to its __sev(); the
\* main code of core 0 is not starved by interrupts; the clock is free to
\* stand still.
NextWake ==
    \/ \E c \in Cores, ev \in EventInputs : mlua_event_set(c, ev)
    \/ \E c \in Cores : mlua_event_set_sev(c)
    \/ \E d \in Deadlines : mod_dispatch(0, d)
    \/ dispatch_snap(0)
    \/ \E t \in Threads, r \in BOOLEAN : dispatch_resume(0, t, r)
    \/ dispatch_check(0)
    \/ dispatch_wfe(0)

FairWake ==
    /\ InitScenario
    /\ [][NextWake]_vars
    /\ \A c \in Cores : WF_vars(mlua_event_set_sev(c))
    /\ SF_vars(\E d \in Deadlines : mod_dispatch(0, d))
    /\ SF_vars(dispatch_snap(0))
    /\ SF_vars(\E t \in Threads, r \in BOOLEAN : dispatch_resume(0, t, r))
    /\ SF_vars(dispatch_check(0))
    /\ SF_vars(dispatch_wfe(0))

\* ---- dispatch with a deadline, with fair scheduling ----------------------
\* As SpecDeadline. Core 0 goes on executing its dispatch, also when it is
\* interrupted again and again; an interrupt handler that has set a bit goes
\* on to its __sev(); the clock advances.
FairDeadline ==
    /\ InitScenario
    /\ [][NextDeadline]_vars
    /\ WF_vars(Tick)
    /\ \A c \in Cores : WF_vars(mlua_event_set_sev(c))
    /\ SF_vars(dispatch_snap(0))
    /\ SF_vars(\E t \in Threads, r \in BOOLEAN : dispatch_resume(0, t, r))
    /\ SF_vars(dispatch_check(0))
    /\ SF_vars(dispatch_wfe(0))

\* ==== properties ==========================================================
\* An unclaim by the owner: the call releases the slot held by h.
OwnerUnclaim(c, h) ==
    handle[h] < NUM_EVENTS /\ handle[h] \in mask[c] /\ mlua_event_unclaim(c, h)

\* C1: every successful claim returns an id in [0, NUM_EVENTS) that no core
\* has claimed at that moment and marks it in the caller's mask; an id
\* released by its owner's unclaim is in no mask afterwards, so that a
\* later claim can return it again.
C1_ClaimUniqueAndReusable ==
    [][/\ \A c \in Cores, h \in Handles :
            (handle[h] >= NUM_EVENTS /\ claimRet' = "NULL"
                                    /\ mlua_event_claim(c, h))
            => /\ handle'[h] \in Events
               /\ handle'[h] \notin ClaimedAll
               /\ mask' = [mask EXCEPT ![c] = @ \cup {handle'[h]}]
       /\ \A c \in Cores, h \in Handles :
            OwnerUnclaim(c, h) => handle[h] \notin ClaimedAll'
      ]_vars

\* An unclaim is in progress on core c and the id it released has already
\* been handed out again by a claim.
C1_Witness ==
    \E c \in Cores :
        pc[c] = "unclaim" /\ uev[c] \in ClaimedAll /\ claimRet = "NULL"

\* C2: no slot is in the claimed-mask of two cores.
C2_UniqueOwner ==
    \A c1, c2 \in Cores : c1 # c2 => mask[c1] \cap mask[c2] = {}

C2_Witness ==
    ClaimedAll = Events /\ \A c \in Cores : Cardinality(mask[c]) >= 2

\* C3: a pending bit is set only for a slot that some core has claimed.
C3_PendingOnlyIfClaimed == pending \subseteq ClaimedAll

\* C4: the step of unclaim that releases slot id leaves the pending bit of
\* id clear.
C4_UnclaimClearsPending ==
    [][\A c \in Cores, h \in Handles :
          OwnerUnclaim(c, h) => handle[h] \notin pending']_vars

\* C5: an unclaim by the owner removes the registry entry of its slot and
\* nothing else: the locked part leaves the registry alone, nothing changes
\* the core's registry before the purge, and the purge sets the slot's
\* entry to nil, whatever it held.
C5_UnclaimPurgesEntry ==
    [][/\ \A c \in Cores, h \in Handles :
            OwnerUnclaim(c, h) => registry' = registry
       /\ \A c \in Cores :
            (pc[c] = "unclaim" /\ pc'[c] = "unclaim")
            => registry'[c] = registry[c]
       /\ \A c \in Cores :
            mlua_event_unclaim_purge(c)
            => /\ registry'[c][uev[c]] = NilEntry
               /\ \A c2 \in Cores, e \in Events :
                    (c2 # c \/ e # uev[c])
                    => registry'[c2][e] = registry[c2][e]
      ]_vars

\* The owner is about to purge a slot that has a set of watchers, while
\* another slot has a watcher too.
C5_Witness ==
    \E c \in Cores :
        /\ pc[c] = "unclaim"
        /\ registry[c][uev[c]].kind = "table"
        /\ Cardinality(registry[c][uev[c]].ws) >= 2
        /\ \E e \in Events \ {uev[c]} : registry[c][e].kind = "thread"

\* C6: a claim on a variable that holds no slot fails with "no events
\* available" exactly when every slot is claimed, and then changes no mask,
\* no pending bit and no MLuaEvent; otherwise it succeeds. An unclaim by
\* the owner leaves a slot free, so the next claim succeeds.
C6_Exhaustion ==
    [][/\ \A c \in Cores, h \in Handles :
            (handle[h] >= NUM_EVENTS /\ mlua_event_claim(c, h))
            => IF ClaimedAll = Events
               THEN /\ claimRet' = "no events available"
                    /\ UNCHANGED <<mask, pending, handle>>
               ELSE /\ claimRet' = "NULL"
                    /\ handle'[h] \in Events
       /\ \A c \in Cores, h \in Handles :
            OwnerUnclaim(c, h) => ClaimedAll' # Events
      ]_vars

\* The last claim found the table full, with pending bits set.
C6_Witness ==
    /\ claimRet = "no events available"
    /\ ClaimedAll = Events
    /\ pending # {}

\* A dispatch step of core c: any step of the call between its entry and
\* its return.
DispatchStep(c) ==
    \/ dispatch_snap(c)
    \/ \E t \in Threads, r \in BOOLEAN : dispatch_resume(c, t, r)
    \/ dispatch_check(c)

\* C7: a dispatch step of a core clears no pending bit outside that core's
\* mask, and every resume call it makes is for a slot in that core's mask;
\* a pending bit of a slot claimed by core a is cleared by a dispatch step
\* of core a only.
C7_DispatchOwnSlotsOnly ==
    [][/\ \A c \in Cores :
            DispatchStep(c) => (pending \ pending') \subseteq mask[c]
       /\ \A c \in Cores, t \in Threads, r \in BOOLEAN :
            dispatch_resume(c, t, r) => cur[c] \in mask[c]
       /\ \A a \in Cores, e \in Events :
            (e \in mask[a] /\ e \in pending /\ e \notin pending')
            => dispatch_snap(a)
      ]_vars

\* Core b has finished a pass during which a slot claimed by the other core
\* was pending all along, with a watcher in b's own registry; b has resumed
\* watchers of its own slots in that pass.
C7_Witness ==
    \E a, b \in Cores :
        /\ a # b
        /\ pc[b] = "check"
        /\ rlog[b] # << >>
        /\ \E e \in mask[a] :
            /\ e \in entryPending[b] /\ e \in pending
            /\ Watchers(b, e) # {}

\* C8: mod_dispatch returns only from a pass in which a resumed watcher
\* reported progress, or with the deadline reached; with the deadline
\* at_the_end_of_time it returns only after a watcher reported progress.
\* (nil_time is the "already past" deadline.)
C8_ReturnOnlyOnProgressOrDeadline ==
    [][\A c \in Cores :
          (pc[c] \in {"snap", "resume", "check", "wfe"} /\ pc'[c] = "run")
          => \/ progress[c]
             \/ deadline[c] = nil_time
             \/ deadline[c] # at_the_end_of_time /\ now >= deadline[c]
      ]_vars

\* Core 0 waits in WFE after a pass that resumed watchers none of which
\* reported progress, with a finite deadline still in the future.
C8_Witness ==
    /\ pc[0] = "wfe"
    /\ rlog[0] # << >>
    /\ ~progress[0]
    /\ deadline[0] \notin {nil_time, at_the_end_of_time}
    /\ now < deadline[0]

\* Core 0's dispatch is at the first resume call for slot e: none of the
\* slot's watchers has been resumed for it yet.
StartsResuming(e) ==
    pc[0] = "resume" /\ cur[0] = e /\ iter[0] = Watchers(0, e)
\* Every watcher of slot e has been resumed in core 0's current pass.
AllResumed(e) ==
    \A t \in Watchers(0, e) :
        \E i \in 1 .. Len(rlog[0]) : rlog[0][i] = <<e, t>>

\* C9: whenever the pending bit of a slot owned by core 0 is set and the
\* slot has watchers, core 0's dispatch later comes to resume the slot's
\* watchers, and once it is resuming them it resumes every one; and core 0
\* never stays in WFE while a slot it owns is pending.
C9_NoLostWakeup ==
    /\ \A e \in Events :
         (e \in pending /\ e \in mask[0] /\ Watchers(0, e) # {})
            ~> StartsResuming(e)
    /\ \A e \in Events :
         (pc[0] = "resume" /\ cur[0] = e) ~> AllResumed(e)
    /\ (pc[0] = "wfe" /\ pending \cap mask[0] # {}) ~> (pc[0] # "wfe")

\* Core 0 sits in WFE with the indefinite deadline while the bit of a
\* watched slot it owns was set after the pass began, and the __sev() of
\* that set has not been issued yet.
C9_Witness ==
    /\ pc[0] = "wfe"
    /\ deadline[0] = at_the_end_of_time
    /\ ~evreg[0]
    /\ \E c \in Cores : irq[c] = "sev"
    /\ \E e \in (pending \cap mask[0]) \ entryPending[0] :
         Watchers(0, e) # {}

\* C10: at the end of a pass, every watcher of every slot the core owns
\* whose bit was pending when the pass began has been resumed in that pass.
C10_AllWatchersResumed ==
    \A c \in Cores :
        pc[c] = "check"
        => \A e \in entryPending[c] \cap mask[c] :
             \A t \in Watchers(c, e) :
                \E i \in 1 .. Len(rlog[c]) : rlog[c][i] = <<e, t>>

\* A pass has ended in which two watchers of one pending slot were resumed.
C10_Witness ==
    \E c \in Cores :
        /\ pc[c] = "check"
        /\ \E e \in entryPending[c] \cap mask[c] :
            /\ Cardinality(Watchers(c, e)) >= 2
            /\ Cardinality({i \in 1 .. Len(rlog[c]) : rlog[c][i][1] = e}) >= 2

\* C15: mlua_event_watch by thread t on slot ev stores the single thread
\* in an empty entry, turns a single different thread into a table holding
\* exactly the two, inserts into a table, leaves the entry as it is when t
\* is registered already, and touches no other entry.
C15_WatchIdempotent ==
    [][\A t \in Threads, ev \in Events :
          mlua_event_watch(t, ev)
          => LET old == registry[CoreOf(t)][ev]
                 new == registry'[CoreOf(t)][ev]
             IN  /\ old.kind = "nil" => new = [kind |-> "thread", ws |-> {t}]
                 /\ (old.kind = "thread" /\ old.ws # {t})
                    => /\ new.kind = "table"
                       /\ new.ws = old.ws \cup {t}
                       /\ Cardinality(new.ws) = 2
                 /\ old.kind = "table"
                    => new.kind = "table" /\ new.ws = old.ws \cup {t}
                 /\ t \in old.ws => new = old
                 /\ \A c \in Cores, e \in Events :
                      (c # CoreOf(t) \/ e # ev)
                      => registry'[c][e] = registry[c][e]
      ]_vars

\* A slot has a table of two watchers while another slot of the same core
\* has a single watcher, and no unclaim is in progress.
C15_Witness ==
    /\ \A c \in Cores : pc[c] = "run"
    /\ \E c \in Cores, e1, e2 \in Events :
        /\ registry[c][e1].kind = "table"
        /\ Cardinality(registry[c][e1].ws) = 2
        /\ registry[c][e2].kind = "thread"

\* C16: mlua_event_unwatch by thread t on slot ev removes t and nothing
\* else from the entry, changes nothing when t is not registered, touches
\* no other entry, and leaves the entry in the no-watcher state (nil) when
\* no watcher remains.
C16_UnwatchDemotes ==
    [][\A t \in Threads, ev \in Events :
          mlua_event_unwatch(t, ev)
          => LET old == registry[CoreOf(t)][ev]
                 new == registry'[CoreOf(t)][ev]
             IN  /\ new.ws = old.ws \ {t}
                 /\ t \notin old.ws => new = old
                 /\ new.ws = {} => new = NilEntry
                 /\ \A c \in Cores, e \in Events :
                      (c # CoreOf(t) \/ e # ev)
                      => registry'[c][e] = registry[c][e]
      ]_vars

\* C16, as amended: mlua_event_unwatch by thread t on slot ev removes t and
\* nothing else from the entry, changes nothing when t is not registered,
\* and touches no other entry; a single-thread entry of t goes back to nil,
\* while a table stays a table, also when its last thread is removed.
C16_UnwatchRemovesOnlyThread ==
    [][\A t \in Threads, ev \in Events :
          mlua_event_unwatch(t, ev)
          => LET old == registry[CoreOf(t)][ev]
                 new == registry'[CoreOf(t)][ev]
             IN  /\ new.ws = old.ws \ {t}
                 /\ t \notin old.ws => new = old
                 /\ (old.kind = "thread" /\ old.ws = {t}) => new = NilEntry
                 /\ old.kind = "table" => new.kind = "table"
                 /\ \A c \in Cores, e \in Events :
                      (c # CoreOf(t) \/ e # ev)
                      => registry'[c][e] = registry[c][e]
      ]_vars

\* A slot's entry is a table that has lost all its threads, next to a slot
\* with a watcher.
C16_Witness ==
    \E c \in Cores, e1, e2 \in Events :
        /\ registry[c][e1] = [kind |-> "table", ws |-> {}]
        /\ registry[c][e2].ws # {}

\* C17: mlua_event_unclaim on an MLuaEvent whose slot is not in the calling
\* core's mask (it holds no slot, or a slot of the other core) changes
\* nothing: no mask, no pending bit, no registry entry, no MLuaEvent, and
\* no purge of the registry follows.
C17_UnclaimNotOwnerNoop ==
    [][\A c \in Cores, h \in Handles :
          ((handle[h] >= NUM_EVENTS \/ handle[h] \notin mask[c])
              /\ mlua_event_unclaim(c, h))
          => UNCHANGED <<mask, pending, registry, handle, pc, uev>>
      ]_vars

\* Core c can call unclaim on an MLuaEvent that holds a pending slot of the
\* other core.
C17_Witness ==
    \E c \in Cores, h \in Handles :
        /\ Running(c)
        /\ handle[h] < NUM_EVENTS
        /\ handle[h] \notin mask[c]
        /\ handle[h] \in ClaimedAll
        /\ handle[h] \in pending

\* C18: mlua_event_set(ev) sets the pending bit of ev and mlua_event_clear
\* (ev) clears it; neither changes another pending bit, a mask, a registry
\* entry or an MLuaEvent, neither resumes a thread or moves a dispatch, the
\* __sev() that ends a set changes none of these either, and with ev
\* outside [0, NUM_EVENTS) the call changes nothing at all. Neither call
\* waits: it can complete whenever it is made.
C18_SetClearOnlyThatBit ==
    /\ [][\A c \in Cores, ev \in 0 .. NUM_EVENTS :
            /\ mlua_event_set(c, ev)
               => /\ pending' = IF ev < NUM_EVENTS THEN pending \cup {ev}
                                                   ELSE pending
                  /\ UNCHANGED <<mask, registry, handle, pc, evreg>>
                  /\ UNCHANGED dispVars
                  /\ ev >= NUM_EVENTS => UNCHANGED vars
            /\ mlua_event_clear(c, ev)
               => /\ pending' = pending \ {ev}
                  /\ UNCHANGED <<mask, registry, handle, pc, irq, evreg>>
                  /\ UNCHANGED dispVars
            /\ mlua_event_set_sev(c)
               => /\ UNCHANGED <<pending, mask, registry, handle, pc>>
                  /\ UNCHANGED dispVars
         ]_vars
    /\ [](\A c \in Cores, ev \in 0 .. NUM_EVENTS :
            /\ irq[c] = "none" => ENABLED mlua_event_set(c, ev)
            /\ Running(c) => ENABLED mlua_event_clear(c, ev))

\* Two slots with watchers are pending while core 0 is in the middle of
\* resuming watchers.
C18_Witness ==
    /\ pc[0] = "resume"
    /\ rlog[0] # << >>
    /\ \E e1, e2 \in pending :
         e1 # e2 /\ Watchers(0, e1) # {} /\ Watchers(0, e2) # {}

\* C11: when try_get returns a non-negative result on its first call,
\* mlua_event_wait returns that result to its caller with the thread neither
\* registered nor suspended, and the registry is as it was before the call.
C11_FirstTrySucceeds ==
    [][\A t \in ThreadsOf(0), res \in TryResults :
          (/\ thr[t].st = "out"
           /\ thr'[t] # thr[t]
           /\ res >= 0
           /\ \E ev \in Events, y \in YieldOutcomes :
                 mlua_event_wait(t, ev, at_the_end_of_time, res, y))
          => /\ thr'[t].st = "out"
             /\ thr'[t].ret = "result"
             /\ thr'[t].val = res
             /\ thr'[t].tries = 1
             /\ thr'[t].susp = 0
             /\ registry' = registry
      ]_vars

\* A thread has returned from a wait with the result 1 of its first try_get
\* while another thread is suspended in a wait and registered for a slot.
C11_Witness ==
    \E t, u \in ThreadsOf(0) :
        /\ t # u
        /\ thr[t].st = "out" /\ thr[t].ret = "result"
        /\ thr[t].val = 1 /\ thr[t].tries = 1
        /\ thr[u].st = "suspended"
        /\ Watchers(0, thr[u].ev) = {u}

\* C12: a thread in mlua_event_wait is resumed by a dispatch pass that
\* drained the bit of its slot, once in that pass; each resumption is
\* followed by one call of try_get; a negative result is followed by one
\* suspension, with the thread still registered; the first non-negative
\* result is returned, with the thread unregistered, and no wait returns a
\* negative result.
C12_WaitRetryCycle ==
    /\ [](\A t \in ThreadsOf(0) :
            LET r == thr[t]
            IN  /\ r.st = "suspended"
                   => /\ r.susp = r.tries /\ r.wakes = r.tries - 1
                      /\ t \in Watchers(0, r.ev)
                /\ r.st = "ready"
                   => /\ r.susp = r.tries /\ r.wakes = r.tries
                      /\ t \in Watchers(0, r.ev)
                /\ (r.st = "out" /\ r.ret = "result")
                   => /\ r.val >= 0
                      /\ r.susp = r.tries - 1 /\ r.wakes = r.susp)
    /\ [](pc[0] = "check"
          => \A e \in entryPending[0] \cap mask[0] :
               \A t \in Watchers(0, e) :
                  /\ Cardinality({i \in 1 .. Len(rlog[0]) :
                                    rlog[0][i] = <<e, t>>}) = 1
                  /\ thr[t].st = "ready")
    /\ [][\A t \in ThreadsOf(0) :
            /\ (thr[t].st = "suspended" /\ thr'[t] # thr[t])
               => /\ pc[0] = "resume" /\ cur[0] = thr[t].ev
                  /\ thr'[t] = [thr[t] EXCEPT !.st = "ready",
                                              !.wakes = @ + 1]
            /\ (thr[t].st = "ready" /\ thr'[t] # thr[t])
               => /\ thr'[t].tries = thr[t].tries + 1
                  /\ thr'[t].wakes = thr[t].wakes
                  /\ \/ /\ thr'[t].st = "out" /\ thr'[t].ret = "result"
                        /\ thr'[t].val >= 0
                        /\ thr'[t].susp = thr[t].susp
                        /\ t \notin registry'[0][thr[t].ev].ws
                     \/ /\ thr'[t].st = "suspended"
                        /\ thr'[t].susp = thr[t].susp + 1
                        /\ thr'[t].ev = thr[t].ev
                        /\ registry' = registry
         ]_vars

\* A wait has returned the result of its last try_get after MaxCycles
\* resumptions with a negative result before it.
C12_Witness ==
    \E t \in ThreadsOf(0) :
        /\ thr[t].st = "out" /\ thr[t].ret = "result"
        /\ thr[t].tries = MaxCycles + 1
        /\ thr[t].wakes = MaxCycles
        /\ thr[t].val = 1

\* C13: a thread in mlua_event_wait with a finite deadline that runs after
\* the deadline has passed leaves the wait, also when try_get returns a
\* negative result.
C13_WaitReturnsAtDeadline ==
    [][\A t \in ThreadsOf(0) :
          (/\ thr[t].st = "ready"
           /\ ~is_at_the_end_of_time(thr[t].dl)
           /\ time_reached(thr[t].dl)
           /\ thr'[t] # thr[t])
          => thr'[t].st = "out"
      ]_vars

\* C14: mlua_event_wait with the value of an MLuaEvent that holds no slot
\* raises "wait for unclaimed event" without a call of try_get, without a
\* change of the registry and without suspending the caller; an MLuaEvent
\* holds a slot exactly when a core has claimed that slot.
C14_WaitUnclaimedFails ==
    /\ [](\A h \in Handles :
             handle[h] < NUM_EVENTS <=> handle[h] \in ClaimedAll)
    /\ [][\A t \in ThreadsOf(0) :
              (/\ thr[t].st = "out"
               /\ thr'[t] # thr[t]
               /\ \E h \in Handles, dl \in WaitDeadlines, res \in TryResults,
                     y \in YieldOutcomes :
                      /\ handle[h] \notin ClaimedAll
                      /\ mlua_event_wait(t, handle[h], dl, res, y))
              => /\ thr'[t].st = "out"
                 /\ thr'[t].ret = "wait for unclaimed event"
                 /\ thr'[t].tries = 0
                 /\ thr'[t].susp = 0
                 /\ registry' = registry
         ]_vars

\* The slot has been unclaimed, a wait on its MLuaEvent has failed since,
\* and the other thread is still suspended in its wait on the slot.
C14_Witness ==
    \E t, u \in ThreadsOf(0) :
        /\ ClaimedAll = {}
        /\ pc[0] = "run"
        /\ thr[t].ret = "wait for unclaimed event"
        /\ thr[u].st = "suspended"
        /\ thr[u].ev = 0

\* The errors of a yield in a context that cannot yield: the one raised by
\* lua_yieldk and the one raised after it.
YieldErrors ==
    {"attempt to yield from outside a coroutine", "unable to yield"}

\* C20: mlua_event_suspend and, under it, mlua_event_yield in a context
\* that cannot yield end with an error: the context is not suspended and
\* its caller gets no result.
C20_YieldUnsuspendableFails ==
    [][\A x \in WaitContexts, dl \in Deadlines, y \in YieldOutcomes :
          (/\ ~lua_isyieldable(x)
           /\ ~time_reached(dl)
           /\ mod_sleep_until(x, dl, y))
          => /\ thr'[x].st = "out"
             /\ thr'[x].ret \in YieldErrors
      ]_vars

\* The main context of core 0 got the error raised after lua_yieldk while a
\* thread of the core is suspended in its sleep.
C20_Witness ==
    /\ thr[MainCtx(0)].ret = "unable to yield"
    /\ \E t \in ThreadsOf(0) : thr[t].st = "suspended"

\* C19: every step that changes the pending bitmap or a claimed-mask is
\* the store of an agent that holds the lock, and the words the agent loaded
\* before are still the current ones at that store, so the store overwrites
\* nobody's update; at most one agent is inside a locked section.
C19_WritesUnderLock ==
    /\ [](Cardinality({a \in Agents : lop[a].ph # "idle"}) <= 1)
    /\ [][(pending' # pending \/ mask' # mask)
          => /\ lock \in Agents
             /\ lop[lock].ph = "read"
             /\ lop'[lock].ph = "written"
             /\ lop[lock].rp = pending
             /\ lop[lock].rm = mask
         ]_vars

\* The interrupt handler of core 1 holds the lock and has stored the
\* pending bitmap, with slots claimed on both cores.
C19_Witness ==
    /\ lock = 1 + NUM_CORES
    /\ lop[lock].ph = "written"
    /\ lop[lock].rp # pending
    /\ mask[0] # {} /\ mask[1] # {}

\* C21: mlua_event_watch in a context that cannot yield, or with the value
\* of an MLuaEvent that holds no slot, raises an error and leaves the
\* registry as it was; an MLuaEvent holds a slot exactly when a core has
\* claimed that slot.
C21_WatchErrors ==
    /\ [](\A h \in Handles :
             handle[h] < NUM_EVENTS <=> handle[h] \in ClaimedAll)
    /\ [][\A x \in Contexts, h \in Handles :
              (/\ ~lua_isyieldable(x) \/ handle[h] \notin ClaimedAll
               /\ mlua_event_watch(x, handle[h]))
              => /\ registry' = registry
                 /\ thr'[x].ret \in {"watching disabled event",
                                     "watching event in unyieldable thread"}
         ]_vars

\* The main context of core 0 got the error of a watch on a claimed slot
\* that a thread of the core watches, and a thread got the error of a watch
\* with an MLuaEvent that holds no slot.
C21_Witness ==
    /\ thr[MainCtx(0)].ret = "watching event in unyieldable thread"
    /\ \E t \in ThreadsOf(0) : thr[t].ret = "watching disabled event"
    /\ \E e \in mask[0] : Watchers(0, e) # {}

\* C26: a claim that succeeds stores in the caller's variable the lowest id
\* that is in no core's mask, adds that id to the calling core's mask, and
\* changes no other mask bit and no pending bit.
C26_ClaimLowestFree ==
    [][\A c \in Cores, h \in Handles :
          (/\ handle[h] >= NUM_EVENTS
           /\ ClaimedAll # Events
           /\ mlua_event_claim(c, h))
          => LET e == Min(Events \ ClaimedAll)
             IN  /\ handle' = [handle EXCEPT ![h] = e]
                 /\ mask' = [mask EXCEPT ![c] = @ \cup {e}]
                 /\ pending' = pending
                 /\ claimRet' = "NULL"
      ]_vars

\* A claim has filled a hole below a slot that is still held: core 0 is
\* still purging slot 0, which it released while it kept slot 1, and core 1
\* has claimed slot 0 again while an event was pending.
C26_Witness ==
    /\ claimRet = "NULL"
    /\ pc[0] = "unclaim" /\ uev[0] = 0
    /\ 0 \in mask[1] /\ 1 \in mask[0]
    /\ pending # {}
    /\ ClaimedAll # Events

\* C29: when mlua_event_wait returns a result after the thread was
\* suspended at least once, the thread is no longer registered for the
\* slot, the other threads registered for the slot still are, and no other
\* entry of the registry has changed.
C29_ReturnUnregisters ==
    [][\A t \in Threads :
          (/\ thr[t].st = "ready" /\ thr[t].ev < NUM_EVENTS
           /\ thr'[t].st = "out" /\ thr'[t].ret = "result"
           /\ \E res \in TryResults : mlua_event_wait_2(t, res))
          => LET c == CoreOf(t)
                 ev == thr[t].ev
             IN  /\ thr[t].susp >= 1
                 /\ t \notin registry'[c][ev].ws
                 /\ registry'[c][ev].ws = registry[c][ev].ws \ {t}
                 /\ \A core \in Cores, e \in Events :
                      (core # c \/ e # ev)
                      => registry'[core][e] = registry[core][e]
      ]_vars

\* A thread has returned from a wait in which it was suspended, and the
\* other thread of the core, suspended on a slot, is all that is left in
\* that slot's table.
C29_Witness ==
    \E t, u \in Threads, e \in Events :
        /\ t # u /\ CoreOf(t) = CoreOf(u)
        /\ thr[t].st = "out" /\ thr[t].ret = "result" /\ thr[t].susp >= 1
        /\ thr[u].st = "suspended" /\ thr[u].ev = e
        /\ registry[CoreOf(t)][e] = [kind |-> "table", ws |-> {u}]

\* C30: the snapshot-and-clear of a block in mod_dispatch is one atomic
\* step: it removes from the pending bitmap exactly the bits of the block
\* that were pending and owned by the calling core, and hands exactly those
\* to the scan; no other step of a dispatch removes a pending bit, so a bit
\* set after the snapshot stays set until the core's next snapshot of the
\* block.
C30_SnapshotAtomic ==
    [][/\ \A c \in Cores :
            dispatch_snap(c)
            => LET own == (pending \cap BlockOf(blk[c])) \cap mask[c]
               IN  /\ pending' = pending \ own
                   /\ LET scan == IF pc'[c] = "resume"
                                   THEN {cur'[c]} \cup active'[c] ELSE {}
                      IN  /\ scan \subseteq own
                          /\ {e \in own : Watchers(c, e) # {}}
                                \subseteq scan
       /\ (pending' # pending /\ ~(pending \subseteq pending'))
            => \E c \in Cores : dispatch_snap(c)
      ]_vars

\* While core 0 resumes the watchers of a slot taken by its snapshot, the
\* slot has been set pending again, and so has a slot of the other core in
\* the same block.
C30_Witness ==
    /\ pc[0] = "resume"
    /\ cur[0] \in pending \cap mask[0]
    /\ \E e \in pending \cap mask[1] : e \in BlockOf(blk[0])

\* C22: when every slot of the core that has a watcher has exactly one and
\* all of them were pending when a pass of mod_dispatch began, the pass
\* calls the resume function once for each of these threads, in ascending
\* order of the slot ids (the order in which the slots were claimed), and
\* every pass does so in the same way.
C22_ResumeInSlotOrder ==
    \A c \in Cores :
        LET ws == {e \in Events : Watchers(c, e) # {}}
        IN  (/\ pc[c] = "check"
             /\ ws \subseteq (entryPending[c] \cap mask[c])
             /\ \A e \in ws : Cardinality(Watchers(c, e)) = 1)
            => /\ Len(rlog[c]) = Cardinality(ws)
               /\ {rlog[c][i][1] : i \in 1 .. Len(rlog[c])} = ws
               /\ \A i \in 1 .. Len(rlog[c]) :
                    /\ Watchers(c, rlog[c][i][1]) = {rlog[c][i][2]}
                    /\ \A j \in 1 .. Len(rlog[c]) :
                         i < j => rlog[c][i][1] < rlog[c][j][1]

\* A pass of core 0 has resumed the waiting thread of slot 0 and then the
\* waiting thread of slot 1, after both threads had been resumed and had
\* suspended again in an earlier round.
C22_Witness ==
    /\ pc[0] = "check"
    /\ Len(rlog[0]) = 2
    /\ rlog[0][1][1] = 0 /\ rlog[0][2][1] = 1
    /\ rlog[0][1][2] # rlog[0][2][2]
    /\ \A i \in 1 .. 2 :
         /\ thr[rlog[0][i][2]].wakes >= 2
         /\ thr[rlog[0][i][2]].st = "ready"
    /\ {0, 1} \subseteq entryPending[0]

\* C28: each time mlua_event_wait suspends the calling thread, the first
\* time and on every retry, the thread is registered as a watcher of the
\* slot at the moment it suspends.
C28_RegisteredWhenSuspending ==
    [][\A t \in ThreadsOf(0) :
          (/\ thr[t].st # "suspended"
           /\ thr'[t].st = "suspended"
           /\ thr'[t].ev < NUM_EVENTS)
          => t \in registry'[CoreOf(t)][thr'[t].ev].ws
      ]_vars

\* The entries of the registries, of any core, that a step has changed.
TouchedEntries ==
    {ce \in Cores \X Events : registry'[ce[1]][ce[2]] # registry[ce[1]][ce[2]]}

\* C23: watch, unwatch, unclaim and dispatch executed on a core that does
\* not own a slot never touch a registry entry of that slot.
C23_OnlyOwnerTouchesEntry ==
    [][/\ \A t \in Threads, ev \in Events :
            (registry' # registry /\ ev \notin mask[CoreOf(t)]
               /\ (mlua_event_watch(t, ev) \/ mlua_event_unwatch(t, ev)))
            => \A ce \in TouchedEntries : ce[2] # ev
       /\ \A c \in Cores, h \in Handles :
            (handle[h] \in Events /\ handle[h] \notin mask[c]
               /\ mlua_event_unclaim(c, h))
            => registry' = registry /\ pc'[c] # "unclaim"
       /\ \A c \in Cores :
            DispatchStep(c)
            => /\ registry' = registry
               /\ pc'[c] = "resume" => cur'[c] \in mask[c]
      ]_vars

\* C23, as amended: the registry of a core is read and modified only by
\* code that runs on that core. unclaim and dispatch on a core that does
\* not own a slot touch no registry entry of it: the purge of unclaim is
\* for the slot the core has just released, and dispatch looks up only
\* slots of the core's own mask. watch and unwatch touch the entry of the
\* given slot in the calling core's own registry, whether or not that core
\* owns the slot, and never an entry in the owning core's registry.
C23_OwnRegistryOnly ==
    [][/\ \A t \in Threads, ev \in Events :
            (registry' # registry
               /\ (mlua_event_watch(t, ev) \/ mlua_event_unwatch(t, ev)))
            => TouchedEntries = {<<CoreOf(t), ev>>}
       /\ \A c \in Cores, h \in Handles :
            (handle[h] \in Events /\ handle[h] \notin mask[c]
               /\ mlua_event_unclaim(c, h))
            => registry' = registry /\ pc'[c] # "unclaim"
       /\ \A c \in Cores :
            mlua_event_unclaim_purge(c)
            => /\ TouchedEntries \subseteq {<<c, uev[c]>>}
               /\ uev[c] \notin mask[c]
       /\ \A c \in Cores :
            DispatchStep(c)
            => /\ registry' = registry
               /\ pc'[c] = "resume" => cur'[c] \in mask[c]
      ]_vars

\* A thread of core 1 is registered, in the registry of core 1, for a slot
\* that core 0 owns, next to a thread of core 0 registered for the same slot
\* in the registry of core 0, while core 1 has gone through a dispatch pass
\* with that slot pending.
C23_Witness ==
    \E e \in mask[0] \cap pending :
        /\ Watchers(1, e) # {} /\ Watchers(0, e) # {}
        /\ Watchers(1, e) \cap Watchers(0, e) = {}
        /\ pc[1] = "check" /\ e \in entryPending[1]

\* C27: a context suspended by mlua_event_suspend has yielded one value:
\* the deadline found at the index when the index is not 0, and otherwise
\* the boolean false.
C27_SuspendYieldsDeadlineOrFalse ==
    \A x \in Contexts :
        thr[x].st = "suspended"
        => thr[x].yv = IF thr[x].idx # 0
                       THEN [kind |-> "integer", at |-> thr[x].dl]
                       ELSE [kind |-> "boolean", at |-> 0]

\* C25: the registry holds no dead thread, and mod_dispatch is never about
\* to call the resume function on a dead thread.
C25_NoDeadWatcher ==
    \A c \in Cores :
        /\ \A e \in Events : \A t \in Watchers(c, e) : thr[t].st # "dead"
        /\ pc[c] = "resume" => \A t \in iter[c] : thr[t].st # "dead"

\* C24: the close of a thread group cancels and joins its members: when
\* close has returned, every member is dead and its exit handler has run
\* exactly once; no exit handler ever runs twice, and a member is dead
\* exactly when its exit handler has run.
C24_CloseCancelsAndJoins ==
    /\ \A t \in GroupMembers(0) :
         /\ thr[t].exits <= 1
         /\ thr[t].st = "dead" <=> thr[t].exits = 1
    /\ thr[MainCtx(0)].ret = "closed"
         => \A t \in GroupMembers(0) : thr[t].st = "dead" /\ thr[t].exits = 1

\* The close has returned after it cancelled both handler threads while
\* they were suspended on their slots: each is still in the table of the
\* slot it waited for.
C24_Witness ==
    /\ thr[MainCtx(0)].ret = "closed" /\ thr[MainCtx(0)].st = "out"
    /\ \A t \in GroupMembers(0) :
         /\ thr[t].st = "dead" /\ thr[t].exits = 1
         /\ \E e \in mask[0] : thr[t].ev = e /\ Watchers(0, e) = {t}

\* C32: mlua_event_claim on an MLuaEvent that holds a slot id returns the
\* error "event already claimed" and changes nothing: the MLuaEvent keeps
\* its id, and no mask bit and no pending bit changes.
C32_DoubleClaimRejected ==
    [][\A c \in Cores, h \in Handles :
          (handle[h] < NUM_EVENTS /\ mlua_event_claim(c, h))
          => /\ claimRet' = "event already claimed"
             /\ handle' = handle
             /\ mask' = mask
             /\ pending' = pending
      ]_vars

\* A second claim has been rejected while slots were free, both cores owned
\* slots and an event was pending.
C32_Witness ==
    /\ claimRet = "event already claimed"
    /\ ClaimedAll # Events
    /\ \A c \in Cores : mask[c] # {}
    /\ pending # {}
    /\ \A c \in Cores : pc[c] = "run"

\* C36: an MLuaEvent managed through claim and unclaim holds an id below
\* NUM_EVENTS exactly when the bit of that id is set in some core's mask,
\* and every bit of a mask is held by exactly one MLuaEvent; a step that
\* changes an MLuaEvent changes the mask bit of its id with it, and a step
\* that changes a mask changes the MLuaEvent that holds the bit.
C36_HandleIffMaskBit ==
    /\ [](\A h \in Handles :
            /\ handle[h] < NUM_EVENTS <=> handle[h] \in ClaimedAll
            /\ \A e \in ClaimedAll : \E k \in HeldHandles : handle[k] = e
            /\ \A k \in HeldHandles : handle[h] = handle[k] => h = k)
    /\ [][/\ \A h \in Handles :
               handle'[h] # handle[h]
               => IF handle[h] >= NUM_EVENTS
                  THEN /\ handle'[h] \in Events \ ClaimedAll
                       /\ \E c \in Cores :
                            mask' = [mask EXCEPT ![c] = @ \cup {handle'[h]}]
                  ELSE /\ handle'[h] = MLUA_EVENT_UNSET
                       /\ \E c \in Cores :
                            /\ handle[h] \in mask[c]
                            /\ mask' = [mask EXCEPT ![c] = @ \ {handle[h]}]
           /\ mask' # mask => handle' # handle
         ]_vars

\* Core 0 has just released a slot, which no MLuaEvent holds any more and
\* whose purge is still to come, while both cores own other slots.
C36_Witness ==
    /\ pc[0] = "unclaim"
    /\ uev[0] \notin ClaimedAll
    /\ \A h \in Handles : handle[h] # uev[0]
    /\ \A c \in Cores : mask[c] # {}
    /\ UnsetHandles # {}

\* C38: mod_dispatch with the deadline nil_time ("already past") or with a
\* finite deadline terminates. With nil_time it never enters the wait for
\* events, so that it makes one pass; a pass that ends with the deadline
\* reached ends the call; and a call with one of these deadlines returns.
C38_DispatchTerminates ==
    /\ [](pc[0] = "wfe" => ~is_nil_time(deadline[0]))
    /\ [][(/\ pc[0] = "check" /\ pc'[0] # "check"
            /\ (is_nil_time(deadline[0]) \/ time_reached(deadline[0])))
           => pc'[0] = "run"]_vars
    /\ (pc[0] # "run" /\ ~is_at_the_end_of_time(deadline[0]))
         ~> (pc[0] = "run")

\* Core 0 is at the end of a pass that resumed nobody, with no event of its
\* own pending and a finite deadline that has been reached.
C38_Witness ==
    /\ pc[0] = "check"
    /\ deadline[0] \notin {nil_time, at_the_end_of_time}
    /\ time_reached(deadline[0])
    /\ ~wake[0] /\ rlog[0] = << >>
    /\ pending \cap mask[0] = {}

\* C39: when the snapshot of mod_dispatch takes the pending bit of an owned
\* slot that has no watcher, the bit is cleared, no resume call is made for
\* the slot and the pass records no progress for it; nothing but the
\* pending bit remembers the event, so that a thread that registers later
\* is resumed only for a later set. A pass without a resume call ends
\* without progress.
C39_UnwatchedEventDropped ==
    /\ [][dispatch_snap(0)
           => LET own == (pending \cap BlockOf(blk[0])) \cap mask[0]
                  idle == {e \in own : Watchers(0, e) = {}}
                  scan == IF pc'[0] = "resume"
                          THEN {cur'[0]} \cup active'[0] ELSE {}
              IN  /\ idle \cap pending' = {}
                  /\ wake'[0] = wake[0] /\ rlog'[0] = rlog[0]
                  /\ pc'[0] = "resume" => cur'[0] \in own \ idle
                  /\ scan \subseteq own
          ]_vars
    /\ [](\A i \in 1 .. Len(rlog[0]) :
            rlog[0][i][2] \in Watchers(0, rlog[0][i][1]))
    /\ []((pc[0] = "check" /\ rlog[0] = << >>) => (~wake[0] /\ ~progress[0]))

\* No thread of core 0 has called a wait yet, so that no slot has had a
\* watcher; an event was set for a slot of core 0 and signalled, and core 0
\* is at the end of a pass with no bit pending any more, no resume call
\* made and no progress recorded.
C39_Witness ==
    /\ \A t \in ThreadsOf(0) : thr[t] = IdleThread
    /\ evreg[0]
    /\ pending = {}
    /\ \A c \in Cores : irq[c] = "none"
    /\ pc[0] = "check" /\ rlog[0] = << >> /\ ~wake[0]

\* C37: the pending bit is a flag. A set of a slot that is pending already
\* leaves the bitmap as it is, so sets between two drains do not add up; and
\* in a pass each watcher of a slot is resumed at most once, the watchers of
\* an owned slot that was pending when the pass began exactly once.
C37_PendingIsFlag ==
    /\ [][\A c \in Cores : \A ev \in pending :
            mlua_event_set(c, ev) => pending' = pending]_vars
    /\ [](\A c \in Cores : \A i, j \in 1 .. Len(rlog[c]) :
            rlog[c][i] = rlog[c][j] => i = j)
    /\ [](\A c \in Cores :
            pc[c] = "check"
            => \A e \in entryPending[c] \cap mask[c] :
                 \A t \in Watchers(c, e) :
                    Cardinality({i \in 1 .. Len(rlog[c]) :
                                   rlog[c][i] = <<e, t>>}) = 1)

\* Core 0 owns every claimed slot and has begun a pass with slot 0 pending.
\* No __sev() was ever issued, so each core has set at most one slot, in the
\* handler it is still in; slot 0 is the only pending slot, so both sets
\* were of slot 0, with no drain between them, and the drain is next.
C37_Witness ==
    /\ mask[1] = {}
    /\ pc[0] = "snap" /\ blk[0] = 0
    /\ 0 \in entryPending[0] \cap mask[0]
    /\ Cardinality(Watchers(0, 0)) >= 2
    /\ pending = {0}
    /\ irq[0] = "sev" /\ irq[1] = "sev"
    /\ ~evreg[0] /\ ~evreg[1]

\* C40: within one call of mod_dispatch a watcher is resumed for a slot only
\* when a snapshot has found the slot's bit pending, and the snapshot clears
\* the bit; only mlua_event_set sets a bit. So a watcher that reported no
\* progress is resumed for the slot again only after a new set. A pass
\* without progress whose deadline is not reached goes on to wait, and the
\* wait ends only on a signalled event or at the deadline, consuming the
\* signal: the loop does not spin.
C40_NoSpin ==
    /\ [][dispatch_snap(0)
           => LET scan == IF pc'[0] = "resume"
                          THEN {cur'[0]} \cup active'[0] ELSE {}
              IN  /\ scan \subseteq pending
                  /\ scan \cap pending' = {}
          ]_vars
    /\ [][IF pending' \subseteq pending
          THEN TRUE
          ELSE \E c \in Cores, ev \in EventInputs : mlua_event_set(c, ev)
         ]_vars
    /\ [][\A t \in Threads, r \in BOOLEAN :
            (pc[0] = "resume" /\ dispatch_resume(0, t, r))
            => \A i \in 1 .. Len(rlog[0]) : rlog[0][i] # <<cur[0], t>>
         ]_vars
    /\ [][(pc[0] = "check" /\ ~wake[0] /\ ~is_nil_time(deadline[0])
             /\ ~time_reached(deadline[0]) /\ dispatch_check(0))
           => pc'[0] = "wfe"]_vars
    /\ [][(pc[0] = "wfe" /\ pc'[0] # "wfe")
           => /\ evreg[0] \/ time_reached(deadline[0])
              /\ ~evreg'[0]
              /\ pc'[0] = "snap"]_vars

\* Core 0 is in the low-power wait of a call without deadline: the watchers
\* of the pass were resumed and none reported progress, no slot is pending
\* and no event is signalled, so that nothing is resumed until the next set.
C40_Witness ==
    /\ pc[0] = "wfe"
    /\ is_at_the_end_of_time(deadline[0])
    /\ rlog[0] # << >> /\ ~wake[0]
    /\ pending = {}
    /\ ~evreg[0]
    /\ \A c \in Cores : irq[c] = "none"

\* C34: mod_sleep_until returns at once, without suspending, when its time
\* is reached; otherwise it suspends with that time as its deadline. Every
\* resume checks the time again: the sleep suspends again with the same
\* deadline when it was resumed early, and it returns only once the time is
\* reached.
C34_SleepUntilReached ==
    /\ [][\A x \in WaitContexts, dl \in Deadlines, y \in YieldOutcomes :
            (thr[x].st = "out" /\ mod_sleep_until(x, dl, y))
            => IF time_reached(dl)
               THEN /\ thr'[x].st = "out" /\ thr'[x].ret = "result"
                    /\ thr'[x].susp = 0
               ELSE y = "yield"
                    => /\ thr'[x].st = "suspended" /\ thr'[x].susp = 1
                       /\ thr'[x].dl = dl
                       /\ thr'[x].yv = [kind |-> "integer", at |-> dl]
         ]_vars
    /\ [][\A t \in ThreadsOf(0) :
            (thr[t].st = "ready" /\ mod_sleep_until_1(t))
            => IF time_reached(thr[t].dl)
               THEN thr'[t].st = "out" /\ thr'[t].ret = "result"
               ELSE /\ thr'[t].st = "suspended"
                    /\ thr'[t].susp = thr[t].susp + 1
                    /\ thr'[t].dl = thr[t].dl
                    /\ thr'[t].yv = [kind |-> "integer", at |-> thr[t].dl]
         ]_vars
    /\ [][\A t \in ThreadsOf(0) :
            (thr[t].st \in {"suspended", "ready"} /\ thr'[t].st = "out")
            => time_reached(thr[t].dl) /\ thr[t].st = "ready"
         ]_vars

\* A sleep that was resumed before its time, suspended again and returned
\* after its time was reached.
C34_Witness ==
    \E t \in ThreadsOf(0) :
        /\ thr[t].st = "out" /\ thr[t].ret = "result"
        /\ thr[t].susp >= 2 /\ thr[t].wakes = thr[t].susp
        /\ now >= 1

\* C33: the lock is held only inside the locked sections of claim, unclaim,
\* set, clear and the snapshot of mod_dispatch. On every path, the failing
\* returns of claim and unclaim included, the agent has released the lock
\* when it returns, and before unclaim touches the watcher registry and
\* before mod_dispatch calls the resume function.
C33_LockNotHeldOutside ==
    /\ [](\A a \in Agents : lop[a].ph \in {"idle", "after"} => lock # a)
    /\ [](lock # NoAgent => lop[lock].ph \in {"locked", "read", "written"})
    /\ [][(registry' # registry \/ wake' # wake)
           => \E a \in Agents :
                /\ lop[a].ph = "after" /\ lop'[a].ph = "idle"
                /\ lock # a /\ lock' = lock]_vars
    /\ [][\A a \in Agents :
            (lop[a].ph = "written" /\ lop'[a].ph # "written")
            => lock = a /\ lock' = NoAgent]_vars

\* Core 0 is between the unlock of its snapshot and its resume calls, with
\* a watched slot in the snapshot, while core 1 holds the lock on the
\* failing path of an unclaim, before its early return.
C33_Witness ==
    /\ lop[0].op = "snap" /\ lop[0].ph = "after"
    /\ \E e \in Drained(0) : Watchers(0, e) # {}
    /\ lock = 1
    /\ lop[1].op = "unclaim" /\ lop[1].ph = "written" /\ FailedPath(1)

\* C35: when mod_dispatch exits, by its return or by an error raised in a
\* call of the resume function, the resume function has been called for
\* every watcher of every bit that the call has cleared in the pending
\* bitmap: no bit of the snapshot with a watcher is left unscanned, and no
\* watcher of the slot being scanned is left out.
C35_ClearedBitsResumed ==
    [][(pc[0] \in {"resume", "check"} /\ pc'[0] = "run")
       => /\ \A e \in active[0] : Watchers(0, e) = {}
          /\ pc[0] = "resume" => Cardinality(iter[0]) <= 1
      ]_vars

====
